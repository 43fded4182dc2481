---------------------------- MODULE CiGateProofs ----------------------------
(***************************************************************************)
(* What is proved of the checks of a pull request, for all workflows,      *)
(* revisions and numbers of jobs and of failing commands: every assertion  *)
(* gets the result it would get alone, a diff shows what changed, and the  *)
(* check is green exactly when it should be.                               *)
(***************************************************************************)
EXTENDS CiGate, ListProofs

IsIndexed(f) == f = [j \in Jobs |-> f[j]]

Shaped ==
  /\ workflow \in Workflows
  /\ head \in [Jobs -> Revisions]
  /\ IsIndexed(pc) /\ IsIndexed(todo) /\ IsIndexed(results) /\ IsIndexed(base)
  /\ IsIndexed(report) /\ IsIndexed(exit)
  /\ fail \in [Jobs -> BOOLEAN]
  /\ answers = [j \in Jobs |-> [head |-> answers[j].head, base |-> answers[j].base]]

\* What an assertion's result is at any time of its job.
Result(j, i) ==
  LET a == Assertions[i]
  IN  IF ~WellFormed(a) THEN Malformed
      ELSE IF ProbeOf(a, workflow) \in todo[j] THEN None
      ELSE CheckAssertion(a, head[j][ProbeOf(a, workflow)].matrix)

\* Before a push is tested there are no results, and then there is one for each assertion.
Judged(j) ==
  results[j] = IF pc[j] = "pushed" THEN <<>> ELSE [i \in DOMAIN Assertions |-> Result(j, i)]
-----------------------------------------------------------------------------
\* The probe of a gated assertion is one the engine answers.
LEMMA GatedProbes ==
  ASSUME workflow \in Workflows, NEW rev \in Revisions, NEW i \in Gated
  PROVE  ProbeOf(Assertions[i], workflow) \in DOMAIN rev
<1>1. workflow.assertions # NoFile
  BY DEF Gated, Assertions
<1>2. Assertions[i] \in Range(workflow.assertions)
  BY <1>1 DEF Gated, Assertions, Range
<1>3. ProbeOf(Assertions[i], workflow) \in Probes(workflow)
  BY <1>1, <1>2 DEF Probes
<1>4. QED
  BY <1>3, RevisionsAssumption

LEMMA DefaultProbe ==
  ASSUME workflow \in Workflows, NEW rev \in Revisions
  PROVE  Default \in DOMAIN rev
BY RevisionsAssumption DEF Probes, Default

\* An answer cut down to the flows that were asked, or not, judges an assertion of the
\* group as the complete one.
LEMMA AskedSuffices ==
  ASSUME workflow \in Workflows, NEW rev \in Revisions, NEW k \in DOMAIN rev, NEW i \in Group(k),
         NEW asked \in {{Flow(Assertions[n]) : n \in Group(k)}, DOMAIN rev[k].matrix}
  PROVE  CheckAssertion(Assertions[i], Response(rev, k, asked).matrix)
           = CheckAssertion(Assertions[i], rev[k].matrix)
<1> DEFINE m == rev[k].matrix
           f == Flow(Assertions[i])
           r == Restrict(m, DOMAIN m \cap asked)
<1>1. Response(rev, k, asked).matrix = r
  BY RevisionsAssumption DEF Response
<1>2. DOMAIN r = DOMAIN m \cap asked
  BY DEF Restrict
<1>3. f \in DOMAIN m => f \in DOMAIN r /\ r[f] = m[f]
  BY <1>2 DEF Restrict
<1>4. QED
  BY <1>1, <1>2, <1>3 DEF CheckAssertion
-----------------------------------------------------------------------------
LEMMA InitShaped == Init => Shaped
BY DEF Init, Shaped, IsIndexed

LEMMA NextShaped ==
  ASSUME Shaped, [Next]_vars
  PROVE  Shaped'
<1>1. CASE UNCHANGED vars
  BY <1>1 DEF Shaped, IsIndexed, vars, inputs, test, diff, past
<1>2. ASSUME NEW j \in Jobs, Start(j) PROVE Shaped'
  BY <1>2 DEF Start, Shaped, IsIndexed, inputs, diff, past
<1>3. ASSUME NEW j \in Jobs, TestGroup(j) PROVE Shaped'
  BY <1>3 DEF TestGroup, At, Shaped, IsIndexed, inputs, diff, past
<1>4. ASSUME NEW j \in Jobs, TestDone(j) PROVE Shaped'
  BY <1>4 DEF TestDone, At, Shaped, IsIndexed, inputs, test, diff, past, Ok
<1>5. ASSUME NEW j \in Jobs, SkipDiff(j) PROVE Shaped'
  BY <1>5 DEF SkipDiff, At, Shaped, IsIndexed, inputs, test, diff, past
<1>6. ASSUME NEW j \in Jobs, Fetch(j) PROVE Shaped'
  BY <1>6 DEF Fetch, At, Shaped, IsIndexed, inputs, test, past
<1>7. ASSUME NEW j \in Jobs, EvaluateHead(j) PROVE Shaped'
  <2>1. \A o \in Jobs : answers'[o] = IF o = j THEN [head |-> head[j][Default], base |-> answers[j].base]
                                    ELSE answers[o]
    BY <1>7 DEF EvaluateHead, Shaped
  <2>2. answers' = [o \in Jobs |-> answers'[o]]
    BY <1>7 DEF EvaluateHead, Shaped
  <2>3. \A o \in Jobs : answers'[o] = [head |-> answers'[o].head, base |-> answers'[o].base]
    BY <2>1 DEF Shaped
  <2>4. answers' = [o \in Jobs |-> [head |-> answers'[o].head, base |-> answers'[o].base]]
    BY <2>2, <2>3, Zenon
  <2>5. QED
    BY <1>7, <2>4 DEF EvaluateHead, At, Shaped, IsIndexed, inputs, test, past
<1>8. ASSUME NEW j \in Jobs, EvaluateBase(j) PROVE Shaped'
  <2>1. \A o \in Jobs : answers'[o] = IF o = j THEN [base |-> base[j][Default], head |-> answers[j].head]
                                    ELSE answers[o]
    BY <1>8 DEF EvaluateBase, Shaped
  <2>2. answers' = [o \in Jobs |-> answers'[o]]
    BY <1>8 DEF EvaluateBase, Shaped
  <2>3. \A o \in Jobs : answers'[o] = [head |-> answers'[o].head, base |-> answers'[o].base]
    BY <2>1 DEF Shaped
  <2>4. answers' = [o \in Jobs |-> [head |-> answers'[o].head, base |-> answers'[o].base]]
    BY <2>2, <2>3, Zenon
  <2>5. QED
    BY <1>8, <2>4 DEF EvaluateBase, At, Shaped, IsIndexed, inputs, test, past
<1>9. ASSUME NEW j \in Jobs, Diff(j) PROVE Shaped'
  BY <1>9 DEF Diff, At, Shaped, IsIndexed, inputs, test, past
<1>10. ASSUME NEW j \in Jobs, FindComment(j) PROVE Shaped'
  BY <1>10 DEF FindComment, At, Shaped, IsIndexed, inputs, test, diff, past
<1>11. ASSUME NEW j \in Jobs, PostComment(j) PROVE Shaped'
  BY <1>11 DEF PostComment, At, Shaped, IsIndexed, inputs, test, diff, past
<1>12. ASSUME NEW j \in Jobs, Verdict(j) PROVE Shaped'
  BY <1>12 DEF Verdict, At, Shaped, IsIndexed, inputs, test, diff, past
<1>13. ASSUME NEW j \in Jobs, Exit(j) PROVE Shaped'
  BY <1>13 DEF Exit, At, Shaped, IsIndexed, inputs, test, diff, past
<1>14. ASSUME NEW j \in Jobs, TestBroken(j) PROVE Shaped'
  BY <1>14 DEF TestBroken, At, Shaped, IsIndexed, inputs, test, diff
<1>15. ASSUME NEW j \in Jobs, Abort(j) PROVE Shaped'
  BY <1>15 DEF Abort, Shaped, IsIndexed, inputs, test, diff
<1>16. QED
  BY <1>1, <1>2, <1>3, <1>4, <1>5, <1>6, <1>7, <1>8, <1>9, <1>10, <1>11, <1>12, <1>13, <1>14,
     <1>15 DEF Next, Step
-----------------------------------------------------------------------------
LEMMA JudgedStable ==
  ASSUME NEW o \in Jobs, Judged(o), UNCHANGED <<workflow, head>>,
         todo'[o] = todo[o], results'[o] = results[o], pc'[o] = "pushed" <=> pc[o] = "pushed"
  PROVE  Judged(o)'
BY DEF Judged, Result, Assertions

\* Only a job's start ends its being pushed.
LEMMA PushedKept ==
  ASSUME Shaped, NEW j \in Jobs, NEW o \in Jobs,
         \/ UNCHANGED vars
         \/ TestDone(o) \/ SkipDiff(o) \/ Fetch(o) \/ EvaluateHead(o) \/ EvaluateBase(o) \/ Diff(o)
         \/ FindComment(o) \/ PostComment(o) \/ Verdict(o) \/ Exit(o) \/ TestBroken(o) \/ Abort(o)
  PROVE  pc'[j] = "pushed" <=> pc[j] = "pushed"
<1>1. CASE UNCHANGED vars
  BY <1>1 DEF vars
<1>2. ASSUME NEW here, NEW there, At(o, here, there), here # "pushed", there # "pushed"
      PROVE  pc'[j] = "pushed" <=> pc[j] = "pushed"
  BY <1>2 DEF At, Shaped, IsIndexed
<1>3. CASE Abort(o)
  BY <1>3 DEF Abort, Shaped, IsIndexed
<1>4. CASE TestDone(o) \/ TestBroken(o)
  BY <1>2, <1>4 DEF TestDone, TestBroken, AfterTest
<1>5. CASE SkipDiff(o) \/ Fetch(o) \/ EvaluateHead(o) \/ EvaluateBase(o) \/ Diff(o)
  BY <1>2, <1>5 DEF SkipDiff, Fetch, EvaluateHead, EvaluateBase, Diff
<1>6. CASE FindComment(o) \/ PostComment(o) \/ Verdict(o) \/ Exit(o)
  BY <1>2, <1>6 DEF FindComment, PostComment, Verdict, Exit
<1>7. QED
  BY <1>1, <1>3, <1>4, <1>5, <1>6

\* Other commands than those of the test leave its results alone.
LEMMA JudgedElsewhere ==
  ASSUME Shaped, NEW j \in Jobs, Judged(j), NEW o \in Jobs,
         \/ UNCHANGED vars
         \/ TestDone(o) \/ SkipDiff(o) \/ Fetch(o) \/ EvaluateHead(o) \/ EvaluateBase(o) \/ Diff(o)
         \/ FindComment(o) \/ PostComment(o) \/ Verdict(o) \/ Exit(o) \/ TestBroken(o) \/ Abort(o)
  PROVE  Judged(j)'
<1>1. UNCHANGED <<workflow, head, todo, results>>
  BY DEF vars, inputs, test, TestDone, SkipDiff, Fetch, EvaluateHead, EvaluateBase, Diff,
         FindComment, PostComment, Verdict, Exit, TestBroken, Abort
<1>2. pc'[j] = "pushed" <=> pc[j] = "pushed"
  BY PushedKept
<1>3. QED
  BY <1>1, <1>2, JudgedStable

LEMMA JudgedStart ==
  ASSUME Shaped, NEW j \in Jobs, Judged(j), NEW o \in Jobs, Start(o)
  PROVE  Judged(j)'
<1>1. UNCHANGED <<workflow, head>>
  BY DEF Start, inputs
<1>2. CASE j # o
  BY <1>1, <1>2, JudgedStable DEF Start, Shaped, IsIndexed
<1>3. CASE j = o
  <2>1. /\ pc'[j] # "pushed"
        /\ todo'[j] = {ProbeOf(Assertions[i], workflow) : i \in Gated}
        /\ results'[j] = [i \in DOMAIN Assertions |-> IF i \in Gated THEN None ELSE Malformed]
    BY <1>3 DEF Start, Shaped, IsIndexed
  <2>2. Assertions' = Assertions
    BY <1>1 DEF Assertions
  <2>3. \A i \in DOMAIN Assertions : results'[j][i] = Result(j, i)'
    BY <1>1, <2>1, <2>2 DEF Result, Gated
  <2>4. results'[j] = [i \in DOMAIN Assertions |-> Result(j, i)']
    BY <2>1, <2>3
  <2>5. QED
    BY <2>1, <2>2, <2>4 DEF Judged
<1>4. QED
  BY <1>2, <1>3

LEMMA JudgedTestGroup ==
  ASSUME Shaped, NEW j \in Jobs, Judged(j), NEW o \in Jobs, TestGroup(o)
  PROVE  Judged(j)'
<1>1. UNCHANGED <<workflow, head>>
  BY DEF TestGroup, inputs
<1>2. CASE j # o
  BY <1>1, <1>2, JudgedStable DEF TestGroup, At, Shaped, IsIndexed
<1>3. CASE j = o
  <2>1. PICK k \in todo[j] :
          /\ \E asked \in {{Flow(Assertions[i]) : i \in Group(k)}, DOMAIN head[j][k].matrix} :
               results' = [results EXCEPT ![j] =
                             [i \in DOMAIN @ |->
                                IF i \in Group(k)
                                THEN CheckAssertion(Assertions[i], Response(head[j], k, asked).matrix)
                                ELSE @[i]]]
          /\ todo' = [todo EXCEPT ![j] = @ \ {k}]
    BY <1>3 DEF TestGroup
  <2>2. PICK asked \in {{Flow(Assertions[i]) : i \in Group(k)}, DOMAIN head[j][k].matrix} :
          results'[j] = [i \in DOMAIN results[j] |->
                           IF i \in Group(k)
                           THEN CheckAssertion(Assertions[i], Response(head[j], k, asked).matrix)
                           ELSE results[j][i]]
    BY <2>1 DEF Shaped, IsIndexed
  <2>3. /\ pc[j] # "pushed" /\ pc'[j] # "pushed"
        /\ todo'[j] = todo[j] \ {k}
    BY <1>3, <2>1 DEF TestGroup, At, Shaped, IsIndexed
  <2>4. /\ DOMAIN results[j] = DOMAIN Assertions
        /\ \A i \in DOMAIN Assertions : results[j][i] = Result(j, i)
    BY <2>3 DEF Judged
  <2>5. ASSUME NEW i \in DOMAIN Assertions
        PROVE  results'[j][i] = Result(j, i)'
    <3>1. CASE i \in Group(k)
      <4>1. WellFormed(Assertions[i]) /\ ProbeOf(Assertions[i], workflow) = k
        BY <3>1 DEF Group, Gated
      <4>2. k \in DOMAIN head[j]
        BY <3>1, <4>1, GatedProbes DEF Group, Shaped
      <4>3. results'[j][i] = CheckAssertion(Assertions[i], head[j][k].matrix)
        <5>1. head[j] \in Revisions /\ workflow \in Workflows
          BY DEF Shaped
        <5>2. CheckAssertion(Assertions[i], Response(head[j], k, asked).matrix)
                = CheckAssertion(Assertions[i], head[j][k].matrix)
          BY <3>1, <4>2, <5>1, AskedSuffices
        <5>3. QED
          BY <2>2, <2>4, <3>1, <5>2
      <4>4. QED
        BY <1>1, <2>3, <4>1, <4>3 DEF Result, Assertions
    <3>2. CASE i \notin Group(k)
      <4>1. results'[j][i] = Result(j, i)
        BY <2>2, <2>4, <3>2
      <4>2. ~WellFormed(Assertions[i]) \/ ProbeOf(Assertions[i], workflow) # k
        BY <3>2 DEF Group, Gated
      <4>3. QED
        BY <1>1, <2>3, <4>1, <4>2 DEF Result, Assertions
    <3>3. QED
      BY <3>1, <3>2
  <2>6. Assertions' = Assertions
    BY <1>1 DEF Assertions
  <2>7. results'[j] = [i \in DOMAIN Assertions |-> Result(j, i)']
    BY <2>2, <2>4, <2>5
  <2>8. QED
    BY <2>3, <2>6, <2>7 DEF Judged
<1>4. QED
  BY <1>2, <1>3

LEMMA NextJudged ==
  ASSUME Shaped, [Next]_vars, NEW j \in Jobs, Judged(j)
  PROVE  Judged(j)'
<1>1. CASE UNCHANGED vars
  BY <1>1, JudgedElsewhere
<1>2. CASE Next
  <2>1. PICK o \in Jobs : Start(o) \/ Step(o) \/ TestBroken(o) \/ Abort(o)
    BY <1>2 DEF Next
  <2>2. CASE Start(o)
    BY <2>2, JudgedStart
  <2>3. CASE TestGroup(o)
    BY <2>3, JudgedTestGroup
  <2>4. QED
    BY <2>1, <2>2, <2>3, JudgedElsewhere DEF Step
<1>3. QED
  BY <1>1, <1>2

TestInv == Shaped /\ \A j \in Jobs : Judged(j)

LEMMA TestInvariant == Spec => []TestInv
<1>1. Init => TestInv
  BY InitShaped DEF Init, TestInv, Judged
<1>2. TestInv /\ [Next]_vars => TestInv'
  BY NextShaped, NextJudged DEF TestInv
<1>3. QED
  BY <1>1, <1>2, PTL DEF Spec

\* Whatever is grouped with it, in whatever order the groups are evaluated and whatever
\* else happens on the pull request, an assertion gets the result it would get alone,
\* against the complete matrix of its own probe (api.RunAssertions).
THEOREM GateResultsExact == Spec => []ResultsExact
<1>1. ASSUME TestInv PROVE ResultsExact
  <2> SUFFICES ASSUME NEW j \in Jobs, NEW i \in DOMAIN results[j]
               PROVE  results[j][i] = Result(j, i)
    BY DEF ResultsExact, Result
  <2>1. CASE pc[j] = "pushed"
    <3>1. results[j] = <<>>
      BY <1>1, <2>1 DEF TestInv, Judged
    <3>2. QED
      BY <3>1
  <2>2. CASE pc[j] # "pushed"
    <3>1. results[j] = [n \in DOMAIN Assertions |-> Result(j, n)]
      BY <1>1, <2>2 DEF TestInv, Judged
    <3>2. QED
      BY <3>1
  <2>3. QED
    BY <2>1, <2>2
<1>2. QED
  BY <1>1, TestInvariant, PTL
-----------------------------------------------------------------------------
(* The diff *)

\* What two matrices say differently is what one allows and the other does not.
LEMMA KindsExact ==
  ASSUME NEW b, NEW h,
         \A f \in DOMAIN b : b[f] \in {"allow", "deny"},
         \A f \in DOMAIN h : h[f] \in {"allow", "deny"}
  PROVE  LET now == {f \in DOMAIN h : h[f] = "allow"}
             was == {f \in DOMAIN b : b[f] = "allow"}
         IN  /\ Kinds(b, h).opened \cup Kinds(b, h).added   = now \ was
             /\ Kinds(b, h).closed \cup Kinds(b, h).removed = was \ now
<1> DEFINE now == {f \in DOMAIN h : h[f] = "allow"}
           was == {f \in DOMAIN b : b[f] = "allow"}
<1>1. Kinds(b, h).opened \cup Kinds(b, h).added = now \ was
  BY DEF Kinds
<1>2. Kinds(b, h).closed \cup Kinds(b, h).removed = was \ now
  BY DEF Kinds
<1>3. QED
  BY <1>1, <1>2

\* There is no change to fail a job for exactly when the same flows are reachable.
LEMMA NoChanges ==
  ASSUME NEW j \in Jobs, NEW r, Shows(j, r)
  PROVE  Changes(r.kinds) = {} <=> Reachable(head[j]) = Reachable(base[j])
<1>1. Changes(r.kinds) = (Reachable(head[j]) \ Reachable(base[j]))
                           \cup (Reachable(base[j]) \ Reachable(head[j]))
  BY DEF Shows, Changes
<1>2. \A f : f \in Reachable(head[j]) => f \in Reachable(base[j]) \/ f \in Changes(r.kinds)
  BY <1>1
<1>3. \A f : f \in Reachable(base[j]) => f \in Reachable(head[j]) \/ f \in Changes(r.kinds)
  BY <1>1
<1>4. QED
  BY <1>1, <1>2, <1>3

\* The field of a result that says whether it passed.
LEMMA Failing ==
  ASSUME NEW g, NEW e, NEW r, r = [got |-> g, pass |-> FALSE, err |-> e]
  PROVE  ~r.pass
OBVIOUS

LEMMA PassingWhenEqual ==
  ASSUME NEW g, NEW e, NEW x, NEW y, NEW r, r = [got |-> g, pass |-> x = y, err |-> e]
  PROVE  r.pass <=> x = y
OBVIOUS

\* An assertion passes when it holds, once no probe is left to evaluate.
LEMMA PassesWhenHolds ==
  ASSUME Shaped, NEW j \in Jobs, Judged(j), pc[j] = "test", todo[j] = {}, Tests
  PROVE  Ok(results[j]) <=> Tested(j)
<1>1. results[j] = [i \in DOMAIN Assertions |-> Result(j, i)]
  BY DEF Judged
<1>2. \A i \in DOMAIN Assertions : results[j][i].pass <=> Holds(j, Assertions[i])
  <2> SUFFICES ASSUME NEW i \in DOMAIN Assertions
               PROVE  results[j][i].pass <=> Holds(j, Assertions[i])
    OBVIOUS
  <2> DEFINE a == Assertions[i]
             m == head[j][ProbeOf(a, workflow)].matrix
  <2>1. results[j][i] = Result(j, i)
    BY <1>1
  <2>2. CASE ~WellFormed(a)
    <3>1. results[j][i] = Malformed
      BY <2>1, <2>2 DEF Result
    <3>2. ~results[j][i].pass
      BY <3>1, Failing, Zenon DEF Malformed
    <3>3. ~Holds(j, a)
      BY <2>2, Zenon DEF Holds
    <3>4. QED
      BY <3>2, <3>3, Zenon
  <2>3. CASE WellFormed(a) /\ Flow(a) \in DOMAIN m
    <3> DEFINE r == results[j][i]
               x == m[Flow(a)]
               y == a.expect
    <3>1. r = [got |-> x, pass |-> x = y, err |-> ""]
      BY <2>1, <2>3, Zenon DEF Result, CheckAssertion
    <3>2. Holds(j, a) <=> x = y
      BY <2>3, Zenon DEF Holds
    <3> HIDE DEF r, x, y
    <3>3. r.pass <=> x = y
      BY <3>1, PassingWhenEqual
    <3>4. QED
      BY <3>2, <3>3, Zenon DEF r
  <2>4. CASE WellFormed(a) /\ Flow(a) \notin DOMAIN m
    <3>1. results[j][i] = [got |-> "", pass |-> FALSE, err |-> "no flow"]
      BY <2>1, <2>4, Zenon DEF Result, CheckAssertion
    <3>2. ~results[j][i].pass
      BY <3>1, Failing, Zenon
    <3>3. ~Holds(j, a)
      BY <2>4, Zenon DEF Holds
    <3>4. QED
      BY <3>2, <3>3, Zenon
  <2>5. QED
    BY <2>2, <2>3, <2>4
<1>3. Assertions # <<>> <=> DOMAIN Assertions # {}
  <2>1. Assertions = workflow.assertions /\ workflow.assertions # NoFile
    BY DEF Tests, Assertions
  <2>2. PICK S : Assertions \in Seq(S)
    BY <2>1, GateAssumption DEF Shaped
  <2>3. Assertions # <<>> => Len(Assertions) \in Nat \ {0}
    BY <2>2, EmptySeq
  <2>4. DOMAIN Assertions = 1..Len(Assertions)
    BY <2>2
  <2>5. QED
    BY <2>3, <2>4
<1>4. QED
  BY <1>1, <1>2, <1>3 DEF Ok, Tested
-----------------------------------------------------------------------------
Diffing == {"head", "base", "report", "find", "post", "verdict"}

\* What each command of the diff can rely on.
Staged(j) ==
  /\ pc[j] \in Diffing \cup {"diff"} => Diffs
  /\ pc[j] \in Diffing => workflow.baseRef /\ base[j] \in Revisions
  /\ pc[j] \in {"pushed", "test", "diff"} => base[j] = None
  /\ pc[j] \in {"pushed", "test", "diff", "head", "base", "report"} => report[j] = None
  /\ pc[j] \in {"base", "report"} => answers[j].head = head[j][Default]
  /\ pc[j] = "report" => answers[j].base = base[j][Default]
  /\ pc[j] \in {"find", "post", "verdict"} \/ report[j] # None => Shows(j, report[j])

\* What the flag and the exit status tell.
Honest(j) ==
  /\ pc[j] \notin {"pushed", "ended"} => ~Refused
  /\ pc[j] = "test" => Tests
  /\ pc[j] = "pushed" \/ pc[j] = "test" => ~fail[j]
  /\ pc[j] \in Diffing \cup {"diff", "exit"} /\ ~fail[j] => Tested(j)
  /\ pc[j] = "exit" /\ ~fail[j] => Unchanged(j)
  /\ fail[j] => ~Tested(j) \/ j \in faulted \/ (pc[j] \in {"exit", "ended"} /\ ~Unchanged(j))
  /\ pc[j] # "ended" => exit[j] = None
  /\ exit[j] = 0 => Tested(j) /\ Unchanged(j) /\ ~Refused
  /\ exit[j] = 1 => ~Tested(j) \/ ~Unchanged(j) \/ Refused \/ j \in faulted

\* What a job's step changes of its own.
Own(j) == <<pc[j], base[j], report[j], answers[j], fail[j], exit[j]>>

\* What workflows and heads decide stays decided.
LEMMA Fixed ==
  ASSUME UNCHANGED <<workflow, head>>, NEW j \in Jobs
  PROVE  /\ (Tests' <=> Tests) /\ (Diffs' <=> Diffs) /\ (Refused' <=> Refused)
         /\ Default' = Default
         /\ Tested(j)' <=> Tested(j)
         /\ base'[j] = base[j] => (Unchanged(j)' <=> Unchanged(j))
         /\ base'[j] = base[j] /\ report'[j] = report[j] =>
              (Shows(j, report[j])' <=> Shows(j, report[j]))
<1>1. /\ (Tests' <=> Tests) /\ (Diffs' <=> Diffs) /\ (Refused' <=> Refused)
      /\ Default' = Default /\ Assertions' = Assertions
  BY DEF Tests, Diffs, Refused, Mode, Default, Assertions
<1>2. \A a : Holds(j, a)' <=> Holds(j, a)
  BY DEF Holds
<1>3. Tested(j)' <=> Tested(j)
  BY <1>1, <1>2 DEF Tested
<1>4. base'[j] = base[j] => (Unchanged(j)' <=> Unchanged(j))
  BY <1>1 DEF Unchanged, Reachable
<1>5. base'[j] = base[j] /\ report'[j] = report[j] =>
        (Shows(j, report[j])' <=> Shows(j, report[j]))
  BY <1>1 DEF Shows, Reachable
<1>6. QED
  BY <1>1, <1>3, <1>4, <1>5

LEMMA KeptWhenOwnKept ==
  ASSUME NEW j \in Jobs, Staged(j), Honest(j),
         UNCHANGED <<workflow, head>>, UNCHANGED Own(j), faulted \subseteq faulted'
  PROVE  Staged(j)' /\ Honest(j)'
<1>1. Staged(j)'
  BY Fixed DEF Staged, Own, Diffing
<1>2. Honest(j)'
  BY Fixed DEF Honest, Own, Diffing
<1>3. QED
  BY <1>1, <1>2

LEMMA InputsKept ==
  ASSUME [Next]_vars
  PROVE  UNCHANGED <<workflow, head>> /\ faulted \subseteq faulted'
BY DEF Next, vars, inputs, past, Step, Start, TestGroup, TestDone, SkipDiff, Fetch, EvaluateHead,
   EvaluateBase, Diff, FindComment, PostComment, Verdict, Exit, TestBroken, Abort, MayFail

\* A job leaves what other jobs keep of their own alone.
LEMMA OthersKeep ==
  ASSUME Shaped, NEW o \in Jobs, NEW j \in Jobs \ {o},
         Start(o) \/ Step(o) \/ TestBroken(o) \/ Abort(o)
  PROVE  UNCHANGED Own(j)
<1>1. CASE Start(o)
  BY <1>1 DEF Start, diff, Own, Shaped, IsIndexed
<1>2. CASE Abort(o)
  BY <1>2 DEF Abort, diff, Own, Shaped, IsIndexed
<1>3. CASE TestGroup(o)
  BY <1>3 DEF TestGroup, At, diff, Own, Shaped, IsIndexed
<1>4. CASE TestDone(o) \/ TestBroken(o)
  BY <1>4 DEF TestDone, TestBroken, At, diff, Own, Shaped, IsIndexed
<1>5. CASE SkipDiff(o) \/ FindComment(o) \/ PostComment(o)
  BY <1>5 DEF SkipDiff, FindComment, PostComment, At, diff, Own, Shaped, IsIndexed
<1>6. CASE Fetch(o) \/ Diff(o)
  BY <1>6 DEF Fetch, Diff, At, Own, Shaped, IsIndexed
<1>7. CASE EvaluateHead(o)
  <2>1. answers'[j] = answers[j]
    BY <1>7 DEF EvaluateHead, Shaped
  <2>2. QED
    BY <1>7, <2>1 DEF EvaluateHead, At, Own, Shaped, IsIndexed
<1>8. CASE EvaluateBase(o)
  <2>1. answers'[j] = answers[j]
    BY <1>8 DEF EvaluateBase, Shaped
  <2>2. QED
    BY <1>8, <2>1 DEF EvaluateBase, At, Own, Shaped, IsIndexed
<1>9. CASE Verdict(o) \/ Exit(o)
  BY <1>9 DEF Verdict, Exit, At, diff, Own, Shaped, IsIndexed
<1>10. QED
  BY <1>1, <1>2, <1>3, <1>4, <1>5, <1>6, <1>7, <1>8, <1>9 DEF Step

\* A job's own steps keep what its commands rely on.
LEMMA OwnStaged ==
  ASSUME Shaped, NEW j \in Jobs, Staged(j), Honest(j),
         UNCHANGED <<workflow, head>>,
         Start(j) \/ Step(j) \/ TestBroken(j) \/ Abort(j)
  PROVE  Staged(j)'
<1> USE Fixed
<1>1. CASE Start(j)
  <2>1. pc'[j] \in {"ended", "test", "diff"} /\ (pc'[j] = "diff" => Diffs)
    BY <1>1 DEF Start, Shaped, IsIndexed, Refused, Tests, Diffs
  <2>2. UNCHANGED <<base[j], report[j], answers[j]>> /\ pc[j] = "pushed"
    BY <1>1 DEF Start, diff
  <2>3. QED
    BY <2>1, <2>2 DEF Staged, Diffing
<1>2. CASE Abort(j)
  BY <1>2 DEF Abort, diff, Staged, Diffing, Shaped, IsIndexed
<1>3. CASE TestGroup(j)
  BY <1>3 DEF TestGroup, At, diff, Staged, Diffing, Shaped, IsIndexed
<1>4. CASE TestDone(j) \/ TestBroken(j)
  <2>1. pc[j] = "test" /\ pc'[j] = AfterTest /\ UNCHANGED <<base[j], report[j], answers[j]>>
    BY <1>4 DEF TestDone, TestBroken, At, diff, Shaped, IsIndexed
  <2>2. pc'[j] = "exit" \/ (pc'[j] = "diff" /\ Diffs)
    BY <2>1 DEF AfterTest, Honest, Tests, Diffs
  <2>3. QED
    BY <2>1, <2>2 DEF Staged, Diffing
<1>5. CASE SkipDiff(j) \/ FindComment(j) \/ PostComment(j)
  BY <1>5 DEF SkipDiff, FindComment, PostComment, At, diff, Staged, Diffing, Shaped, IsIndexed
<1>6. CASE Fetch(j)
  BY <1>6 DEF Fetch, At, Staged, Diffing, Shaped, IsIndexed
<1>7. CASE EvaluateHead(j)
  <2>1. answers'[j].head = head[j][Default]
    BY <1>7 DEF EvaluateHead, Shaped
  <2>2. QED
    BY <1>7, <2>1 DEF EvaluateHead, At, Staged, Diffing, Shaped, IsIndexed
<1>8. CASE EvaluateBase(j)
  <2>1. answers'[j].base = base[j][Default] /\ answers'[j].head = answers[j].head
    BY <1>8 DEF EvaluateBase, Shaped
  <2>2. QED
    BY <1>8, <2>1 DEF EvaluateBase, At, Staged, Diffing, Shaped, IsIndexed
<1>9. CASE Diff(j)
  <2>1. /\ pc[j] = "report" /\ pc'[j] \in {"find", "verdict"}
        /\ UNCHANGED <<base[j], answers[j]>>
        /\ report'[j] = DiffResponses(answers[j].base, answers[j].head)
    BY <1>9 DEF Diff, At, Shaped, IsIndexed
  <2>2. answers[j].head = head[j][Default] /\ answers[j].base = base[j][Default]
    BY <2>1 DEF Staged
  <2>3. base[j] \in Revisions /\ head[j] \in Revisions
    BY <2>1 DEF Staged, Diffing, Shaped
  <2>4. /\ report'[j].kinds = Kinds(base[j][Default].matrix, head[j][Default].matrix)
        /\ report'[j].errors = head[j][Default].errors
    BY <2>1, <2>2 DEF DiffResponses
  <2>5. \A rev \in Revisions : \A f \in DOMAIN rev[Default].matrix :
          rev[Default].matrix[f] \in {"allow", "deny"}
    BY RevisionsAssumption, DefaultProbe DEF Shaped
  <2>6. Shows(j, report'[j])
    BY <2>3, <2>4, <2>5, KindsExact DEF Shows, Reachable
  <2>7. Shows(j, report[j])'
    <3>1. head'[j] = head[j] /\ base'[j] = base[j]
      BY <1>9 DEF Diff, inputs
    <3>2. /\ Reachable(head[j])' = Reachable(head[j])
          /\ Reachable(base[j])' = Reachable(base[j])
      BY <3>1 DEF Reachable
    <3>3. QED
      BY Zenon, <2>6, <3>1, <3>2 DEF Shows
  <2>8. QED
    BY <2>1, <2>7 DEF Staged, Diffing
<1>10. CASE Verdict(j) \/ Exit(j)
  BY <1>10 DEF Verdict, Exit, At, diff, Staged, Diffing, Shaped, IsIndexed
<1>11. QED
  BY <1>1, <1>2, <1>3, <1>4, <1>5, <1>6, <1>7, <1>8, <1>9, <1>10 DEF Step

\* ... and what the flag and the exit status tell.
LEMMA OwnHonest ==
  ASSUME Shaped, NEW j \in Jobs, Judged(j), Staged(j), Honest(j),
         UNCHANGED <<workflow, head>>, faulted \subseteq faulted',
         Start(j) \/ Step(j) \/ TestBroken(j) \/ Abort(j)
  PROVE  Honest(j)'
<1> USE Fixed
<1>1. CASE Start(j)
  <2>1. pc[j] = "pushed" /\ UNCHANGED <<base[j], fail[j]>>
    BY <1>1 DEF Start, diff
  <2>2. CASE Refused
    <3>1. pc'[j] = "ended" /\ exit'[j] = 1
      BY <1>1, <2>2 DEF Start, Shaped, IsIndexed
    <3>2. QED
      BY <2>1, <2>2, <3>1 DEF Honest, Diffing
  <2>3. CASE ~Refused
    <3>1. exit'[j] = None /\ pc'[j] = IF Tests THEN "test" ELSE "diff"
      BY <1>1, <2>3 DEF Start, Shaped, IsIndexed
    <3>2. ~Tests => Tested(j)
      BY DEF Tested
    <3>3. QED
      BY <2>1, <2>3, <3>1, <3>2, GateAssumption DEF Honest, Diffing
  <2>4. QED
    BY <2>2, <2>3
<1>2. CASE Abort(j)
  <2>1. pc'[j] = "ended" /\ exit'[j] = 1 /\ UNCHANGED <<base[j], fail[j]>> /\ j \in faulted'
    BY <1>2 DEF Abort, MayFail, diff, Shaped, IsIndexed
  <2>2. QED
    BY <2>1 DEF Honest, Diffing
<1>3. CASE TestGroup(j)
  BY <1>3 DEF TestGroup, At, diff, Honest, Diffing, Shaped, IsIndexed
<1>4. CASE TestDone(j)
  <2>1. /\ pc[j] = "test" /\ pc'[j] = AfterTest /\ todo[j] = {}
        /\ UNCHANGED <<base[j], exit[j]>>
        /\ fail'[j] = ~Ok(results[j])
    BY <1>4 DEF TestDone, At, diff, Shaped, IsIndexed
  <2>2. Tests
    BY <2>1 DEF Honest
  <2>3. fail'[j] <=> ~Tested(j)
    BY <2>1, <2>2, PassesWhenHolds
  <2>4. pc'[j] = "diff" \/ (pc'[j] = "exit" /\ Unchanged(j))
    BY <2>1 DEF AfterTest, Unchanged, Diffs
  <2>5. QED
    BY <2>1, <2>3, <2>4 DEF Honest, Diffing
<1>5. CASE TestBroken(j)
  <2>1. pc'[j] = AfterTest /\ fail'[j] /\ j \in faulted' /\ UNCHANGED <<base[j], exit[j]>>
    BY <1>5 DEF TestBroken, At, MayFail, diff, Shaped, IsIndexed
  <2>2. pc[j] = "test"
    BY <1>5 DEF TestBroken, At
  <2>3. pc'[j] \in {"diff", "exit"}
    BY <2>1 DEF AfterTest
  <2>4. QED
    BY <2>1, <2>2, <2>3 DEF Honest, Diffing
<1>6. CASE SkipDiff(j)
  <2>1. /\ pc[j] = "diff" /\ pc'[j] = "exit" /\ ~workflow.baseRef
        /\ UNCHANGED <<base[j], exit[j], fail[j]>>
    BY <1>6 DEF SkipDiff, At, diff, Shaped, IsIndexed
  <2>2. Unchanged(j)
    BY <2>1 DEF Unchanged
  <2>3. QED
    BY <2>1, <2>2 DEF Honest, Diffing
<1>7. CASE Fetch(j)
  <2>1. pc[j] = "diff" /\ pc'[j] = "head" /\ UNCHANGED <<exit[j], fail[j]>>
    BY <1>7 DEF Fetch, At, Shaped, IsIndexed
  <2>2. QED
    BY <2>1, GateAssumption DEF Honest, Diffing
<1>8. CASE EvaluateHead(j) \/ EvaluateBase(j) \/ Diff(j)
  <2>1. /\ pc[j] \in {"head", "base", "report"}
        /\ pc'[j] \in {"base", "report", "find", "verdict"}
        /\ UNCHANGED <<base[j], exit[j], fail[j]>>
    BY <1>8 DEF EvaluateHead, EvaluateBase, Diff, At, Shaped, IsIndexed
  <2>2. QED
    BY <2>1 DEF Honest, Diffing
<1>9. CASE FindComment(j) \/ PostComment(j)
  <2>1. /\ pc[j] \in {"find", "post"} /\ pc'[j] \in {"post", "verdict"}
        /\ UNCHANGED <<base[j], exit[j], fail[j]>>
    BY <1>9 DEF FindComment, PostComment, At, diff, Shaped, IsIndexed
  <2>2. QED
    BY <2>1 DEF Honest, Diffing
<1>10. CASE Verdict(j)
  <2>1. /\ pc[j] = "verdict" /\ pc'[j] = "exit" /\ UNCHANGED <<base[j], exit[j]>>
        /\ fail'[j] = (fail[j] \/ (workflow.failOnDiff /\ Changes(report[j].kinds) # {}))
    BY <1>10 DEF Verdict, At, diff, Shaped, IsIndexed
  <2>2. /\ Diffs /\ workflow.baseRef /\ base[j] \in Revisions
        /\ Shows(j, report[j])
    BY <2>1 DEF Staged, Diffing
  <2>3. fail'[j] <=> fail[j] \/ (workflow.failOnDiff /\ Reachable(head[j]) # Reachable(base[j]))
    BY <2>1, <2>2, NoChanges
  <2>4. Unchanged(j) <=> (workflow.failOnDiff => Reachable(head[j]) = Reachable(base[j]))
    BY <2>2, GateAssumption DEF Unchanged
  <2>5. fail'[j] <=> fail[j] \/ ~Unchanged(j)
    BY <2>3, <2>4
  <2>6. QED
    BY <2>1, <2>5 DEF Honest, Diffing
<1>11. CASE Exit(j)
  <2>1. /\ pc[j] = "exit" /\ pc'[j] = "ended" /\ UNCHANGED <<base[j], fail[j]>>
        /\ exit'[j] = IF fail[j] THEN 1 ELSE 0
    BY <1>11 DEF Exit, At, diff, Shaped, IsIndexed
  <2>2. QED
    BY <2>1 DEF Honest, Diffing
<1>12. QED
  BY <1>1, <1>2, <1>3, <1>4, <1>5, <1>6, <1>7, <1>8, <1>9, <1>10, <1>11 DEF Step
-----------------------------------------------------------------------------
GateInv == TestInv /\ \A j \in Jobs : Staged(j) /\ Honest(j)

LEMMA InitGateInv == Init => GateInv
<1> SUFFICES ASSUME Init PROVE GateInv
  OBVIOUS
<1>1. TestInv
  BY InitShaped DEF Init, TestInv, Judged
<1>2. ASSUME NEW j \in Jobs PROVE Staged(j) /\ Honest(j)
  <2>1. /\ pc[j] = "pushed" /\ base[j] = None /\ report[j] = None /\ exit[j] = None
        /\ fail[j] = FALSE
    BY DEF Init
  <2>2. QED
    BY <2>1, GateAssumption DEF Staged, Honest, Diffing
<1>3. QED
  BY <1>1, <1>2 DEF GateInv

LEMMA NextGateInv ==
  ASSUME GateInv, [Next]_vars
  PROVE  GateInv'
<1>1. TestInv'
  BY NextShaped, NextJudged DEF GateInv, TestInv
<1>2. ASSUME NEW j \in Jobs PROVE Staged(j)' /\ Honest(j)'
  <2>1. Shaped /\ Judged(j) /\ Staged(j) /\ Honest(j)
    BY DEF GateInv, TestInv
  <2>2. UNCHANGED <<workflow, head>> /\ faulted \subseteq faulted'
    BY InputsKept
  <2>3. CASE UNCHANGED vars
    <3>1. UNCHANGED Own(j)
      BY <2>3 DEF vars, diff, Own
    <3>2. QED
      BY <2>1, <2>2, <3>1, KeptWhenOwnKept
  <2>4. CASE Next
    <3>1. PICK o \in Jobs : Start(o) \/ Step(o) \/ TestBroken(o) \/ Abort(o)
      BY <2>4 DEF Next
    <3>2. CASE o = j
      BY <2>1, <2>2, <3>1, <3>2, OwnStaged, OwnHonest
    <3>3. CASE o # j
      <4>1. UNCHANGED Own(j)
        BY <2>1, <3>1, <3>3, OthersKeep
      <4>2. QED
        BY <2>1, <2>2, <4>1, KeptWhenOwnKept
    <3>4. QED
      BY <3>2, <3>3
  <2>5. QED
    BY <2>3, <2>4
<1>3. QED
  BY <1>1, <1>2 DEF GateInv

LEMMA GateInvariant == Spec => []GateInv
BY InitGateInv, NextGateInv, PTL DEF Spec

\* What a diff shows as opened or added is what became reachable, and what it shows as
\* closed or removed is what no longer is (api.DiffResponses).
THEOREM GateDiffExact == Spec => []DiffExact
<1>1. GateInv => DiffExact
  BY DEF GateInv, Staged, DiffExact
<1>2. QED
  BY <1>1, GateInvariant, PTL

\* However jobs overlap and whichever commands fail, a job ends green only if its revision
\* keeps every assertion and, where a change is to fail it, reaches what the base reaches;
\* and it ends red only if it does not or a command of it failed (telepathy-ci.sh).
THEOREM GateOutcomeExact == Spec => []OutcomeExact
<1>1. GateInv => OutcomeExact
  BY DEF GateInv, Honest, OutcomeExact
<1>2. QED
  BY <1>1, GateInvariant, PTL
-----------------------------------------------------------------------------
(* Gating a streamed matrix *)

\* Asserted flows are kept of the file, so each is judged as against all of it.
LEMMA ResidentSuffices ==
  ASSUME NEW m, NEW i \in DOMAIN Assertions
  PROVE  CheckAssertion(Assertions[i], Resident(m, Assertions)) = CheckAssertion(Assertions[i], m)
<1> DEFINE f == Flow(Assertions[i])
           kept == {Flow(Assertions[n]) : n \in DOMAIN Assertions}
           r == Restrict(m, DOMAIN m \cap kept)
<1>1. Resident(m, Assertions) = r
  BY DEF Resident
<1>2. DOMAIN r = DOMAIN m \cap kept /\ f \in kept
  BY DEF Restrict
<1>3. f \in DOMAIN m => f \in DOMAIN r /\ r[f] = m[f]
  BY <1>2 DEF Restrict
<1>4. QED
  BY <1>1, <1>2, <1>3 DEF CheckAssertion

\* Gating the streamed matrix of the request's probe (runAssertionsFromMatrixFile) gives the
\* results that evaluating again gives (api.RunAssertions), for every file and every matrix.
THEOREM GateFileRouteAgrees == Spec => []FileRouteAgrees
<1>1. ASSUME TestInv PROVE FileRouteAgrees
  <2> SUFFICES ASSUME NEW j \in Jobs, pc[j] # "pushed", todo[j] = {},
                      \A i \in Gated : ProbeOf(Assertions[i], workflow) = Default
               PROVE  RunAssertionsFromMatrixFile(head[j][Default].matrix, Assertions) = results[j]
    BY DEF FileRouteAgrees
  <2> DEFINE m == head[j][Default].matrix
             Gate(i) == IF WellFormed(Assertions[i])
                        THEN CheckAssertion(Assertions[i], Resident(m, Assertions)) ELSE Malformed
  <2>1. results[j] = [i \in DOMAIN Assertions |-> Result(j, i)]
    BY <1>1 DEF TestInv, Judged
  <2>2. ASSUME NEW i \in DOMAIN Assertions PROVE Gate(i) = Result(j, i)
    <3>1. CASE WellFormed(Assertions[i])
      <4>1. ProbeOf(Assertions[i], workflow) = Default
        BY <3>1 DEF Gated
      <4>2. Result(j, i) = CheckAssertion(Assertions[i], m)
        BY <3>1, <4>1 DEF Result
      <4>3. QED
        BY <3>1, <4>2, ResidentSuffices
    <3>2. CASE ~WellFormed(Assertions[i])
      BY <3>2 DEF Result
    <3>3. QED
      BY <3>1, <3>2
  <2>3. RunAssertionsFromMatrixFile(m, Assertions) = [i \in DOMAIN Assertions |-> Gate(i)]
    BY DEF RunAssertionsFromMatrixFile, RunAssertionsOnMatrix
  <2>4. QED
    BY <2>1, <2>2, <2>3
<1>2. QED
  BY <1>1, TestInvariant, PTL
-----------------------------------------------------------------------------
(* The comment *)

Command == {"test", "diff", "head", "base", "report", "find", "post", "verdict", "exit"}

\* Everything about the comment that a job's commands rely on while jobs do not overlap.
Sticky ==
  /\ pc \in [Jobs -> Command \cup {"pushed", "ended"}]
  /\ found = [j \in Jobs |-> found[j]]
  /\ \E S : comments \in Seq(S)
  /\ \A j \in Jobs : found[j] \in {None} \cup DOMAIN comments

Serial ==
  ~overlap /\ ~unlisted =>
    /\ \A j, o \in Jobs : pc[j] \in Command /\ pc[o] \in Command => j = o
    /\ Len(comments) <= 1
    /\ \A j \in Jobs :
         /\ pc[j] = "post" => found[j] = IF comments = <<>> THEN None ELSE 1
         /\ pc[j] = "verdict" /\ workflow.comment =>
              Len(comments) = 1 /\ comments[1] = [by |-> j, report |-> report[j]]

LEMMA InitSticky == Init => Sticky
BY DEF Init, Sticky

\* What PostComment makes of the list.
LEMMA Posted ==
  ASSUME NEW j \in Jobs, PostComment(j), \E S : comments \in Seq(S),
         found[j] \in {None} \cup DOMAIN comments
  PROVE  /\ \E S : comments' \in Seq(S)
         /\ DOMAIN comments \subseteq DOMAIN comments'
         /\ comments = <<>> /\ found[j] = None =>
              Len(comments') = 1 /\ comments'[1] = [by |-> j, report |-> report[j]]
         /\ Len(comments) = 1 /\ found[j] = 1 /\ None # 1 =>
              Len(comments') = 1 /\ comments'[1] = [by |-> j, report |-> report[j]]
<1> DEFINE c == [by |-> j, report |-> report[j]]
<1>1. PICK S : comments \in Seq(S)
  OBVIOUS
<1>2. comments \in Seq(S \cup {c}) /\ Len(comments) \in Nat /\ DOMAIN comments = 1..Len(comments)
  BY <1>1
<1>3. CASE found[j] = None
  <2>1. comments' = Append(comments, c)
    BY <1>3 DEF PostComment
  <2> HIDE DEF c
  <2>2. /\ comments' \in Seq(S \cup {c}) /\ Len(comments') = Len(comments) + 1
        /\ comments'[Len(comments) + 1] = c
    BY <1>2, <2>1, AppendProperties
  <2>3. comments = <<>> => Len(comments) = 0
    OBVIOUS
  <2>4. DOMAIN comments' = 1..(Len(comments) + 1)
    BY <1>2, <2>2
  <2>5. QED
    BY <1>2, <1>3, <2>2, <2>3, <2>4 DEF c
<1>4. CASE found[j] # None
  <2>1. comments' = [comments EXCEPT ![found[j]] = c]
    BY <1>4 DEF PostComment
  <2> HIDE DEF c
  <2>2. found[j] \in 1..Len(comments)
    BY <1>2, <1>4
  <2>3. comments' \in Seq(S \cup {c}) /\ Len(comments') = Len(comments)
    BY <1>2, <2>1, <2>2, ExceptSeq
  <2>4. DOMAIN comments' = DOMAIN comments
    BY <2>1
  <2>5. found[j] = 1 => comments'[1] = c
    BY <1>2, <2>1, <2>2
  <2>6. QED
    BY <1>4, <2>3, <2>4, <2>5 DEF c
<1>5. QED
  BY <1>3, <1>4

\* The commands a job's step leads from and to.
LEMMA Commands ==
  ASSUME Sticky, NEW j \in Jobs, Start(j) \/ Step(j) \/ TestBroken(j) \/ Abort(j)
  PROVE  /\ \E next \in Command \cup {"ended"} : pc' = [pc EXCEPT ![j] = next]
         /\ ~Start(j) => pc[j] \in Command /\ overlap' = overlap
         /\ pc[j] # "ended"
<1> USE DEF Sticky, Command, At
<1>1. CASE Start(j)
  BY <1>1 DEF Start
<1>2. CASE TestGroup(j) \/ TestDone(j) \/ TestBroken(j)
  BY <1>2 DEF TestGroup, TestDone, TestBroken, AfterTest
<1>3. CASE SkipDiff(j) \/ Fetch(j) \/ EvaluateHead(j) \/ EvaluateBase(j)
  BY <1>3 DEF SkipDiff, Fetch, EvaluateHead, EvaluateBase
<1>4. CASE Diff(j)
  BY <1>4 DEF Diff
<1>5. CASE FindComment(j) \/ PostComment(j) \/ Verdict(j) \/ Exit(j)
  BY <1>5 DEF FindComment, PostComment, Verdict, Exit
<1>6. CASE Abort(j)
  <2>1. pc[j] \in Command /\ pc' = [pc EXCEPT ![j] = "ended"] /\ overlap' = overlap
    BY <1>6 DEF Abort
  <2>2. QED
    BY <2>1
<1>7. QED
  BY <1>1, <1>2, <1>3, <1>4, <1>5, <1>6 DEF Step

\* Comments are never taken away, and only two commands deal with them.
LEMMA CommentsKept ==
  ASSUME NEW j \in Jobs, Start(j) \/ Step(j) \/ TestBroken(j) \/ Abort(j),
         ~FindComment(j), ~PostComment(j)
  PROVE  UNCHANGED <<comments, found, unlisted>>
BY DEF Step, Start, TestGroup, TestDone, SkipDiff, Fetch, EvaluateHead, EvaluateBase, Diff, Verdict,
       Exit, TestBroken, Abort, past

LEMMA NextSticky ==
  ASSUME Sticky, [Next]_vars
  PROVE  Sticky'
<1>1. CASE UNCHANGED vars
  BY <1>1 DEF Sticky, vars
<1>2. CASE Next
  <2>1. PICK j \in Jobs : Start(j) \/ Step(j) \/ TestBroken(j) \/ Abort(j)
    BY <1>2 DEF Next
  <2>2. pc' \in [Jobs -> Command \cup {"pushed", "ended"}]
    BY <2>1, Commands DEF Sticky
  <2>3. CASE FindComment(j)
    <3>1. comments' = comments /\ \E f \in {None, 1} :
            found' = [found EXCEPT ![j] = f] /\ (f = 1 => f = None \/ comments # <<>>)
      BY <2>3 DEF FindComment
    <3>2. comments # <<>> => 1 \in DOMAIN comments
      <4>1. PICK S : comments \in Seq(S)
        BY DEF Sticky
      <4>2. comments # <<>> => Len(comments) \in Nat \ {0}
        BY <4>1, EmptySeq
      <4>3. QED
        BY <4>1, <4>2
    <3>3. QED
      BY <2>2, <3>1, <3>2 DEF Sticky
  <2>4. CASE PostComment(j)
    <3>1. found' = found
      BY <2>4 DEF PostComment
    <3>2. (\E S : comments' \in Seq(S)) /\ DOMAIN comments \subseteq DOMAIN comments'
      BY <2>4, Posted DEF Sticky
    <3>3. QED
      BY <2>2, <3>1, <3>2 DEF Sticky
  <2>5. CASE ~FindComment(j) /\ ~PostComment(j)
    BY <2>1, <2>2, <2>5, CommentsKept DEF Sticky
  <2>6. QED
    BY <2>3, <2>4, <2>5
<1>3. QED
  BY <1>1, <1>2

\* A job that runs alone finds the comment there is, and leaves one that is its own.
LEMMA NextSerial ==
  ASSUME Shaped, Sticky, Serial, [Next]_vars, None # 1
  PROVE  Serial'
<1>1. CASE UNCHANGED vars
  BY <1>1 DEF Serial, vars, inputs, diff, past
<1>2. CASE Next
  <2>1. PICK j \in Jobs : Start(j) \/ Step(j) \/ TestBroken(j) \/ Abort(j)
    BY <1>2 DEF Next
  <2> SUFFICES ASSUME ~overlap', ~unlisted' PROVE Serial'
    BY DEF Serial
  <2>2. ~overlap /\ ~unlisted
    <3>1. ~overlap
      BY <2>1, Commands, Zenon DEF Start
    <3>2. CASE FindComment(j)
      BY <3>2 DEF FindComment, past
    <3>3. CASE PostComment(j)
      BY <3>3 DEF PostComment, past
    <3>4. QED
      BY <2>1, <3>1, <3>2, <3>3, CommentsKept
  <2>3. PICK next \in Command \cup {"ended"} : pc' = [pc EXCEPT ![j] = next]
    BY <2>1, Commands
  <2>4. \A o \in Jobs \ {j} : pc[o] \notin Command /\ pc'[o] \notin Command
    <3>1. CASE Start(j)
      BY <2>3, <3>1 DEF Start, Running, Sticky, Command
    <3>2. CASE ~Start(j)
      BY <2>1, <2>2, <2>3, <3>2, Commands DEF Serial, Sticky
    <3>3. QED
      BY <3>1, <3>2
  <2>5. \A o, q \in Jobs : pc'[o] \in Command /\ pc'[q] \in Command => o = q
    BY <2>4
  <2>6. \A o \in Jobs \ {j} : pc'[o] \notin {"post", "verdict"}
    BY <2>4 DEF Command
  <2>7. workflow' = workflow
    BY InputsKept
  <2>8. Len(comments) <= 1
    BY <2>2 DEF Serial
  <2>9. CASE FindComment(j)
    <3>1. /\ pc'[j] = "post" /\ comments' = comments
          /\ found'[j] = IF comments = <<>> THEN None ELSE 1
      BY <2>9 DEF FindComment, At, Sticky
    <3>2. QED
      BY <2>5, <2>6, <2>8, <3>1 DEF Serial
  <2>10. CASE PostComment(j)
    <3>1. /\ pc[j] = "post" /\ pc'[j] = "verdict" /\ report' = report
      BY <2>10 DEF PostComment, At, diff, Sticky
    <3>2. found[j] = IF comments = <<>> THEN None ELSE 1
      BY <2>2, <3>1 DEF Serial
    <3>3. comments # <<>> => Len(comments) = 1
      <4>1. PICK S : comments \in Seq(S)
        BY DEF Sticky
      <4>2. Len(comments) \in Nat /\ (Len(comments) = 0 => comments = <<>>)
        BY <4>1, EmptySeq
      <4>3. Len(comments) = 0 \/ Len(comments) = 1
        BY <2>8, <4>2
      <4>4. QED
        BY <4>2, <4>3
    <3>4. Len(comments') = 1 /\ comments'[1] = [by |-> j, report |-> report[j]]
      BY <2>10, <3>2, <3>3, Posted DEF Sticky
    <3>5. QED
      BY <2>5, <2>6, <3>1, <3>4 DEF Serial
  <2>11. CASE ~FindComment(j) /\ ~PostComment(j)
    <3>1. UNCHANGED <<comments, found>>
      BY <2>1, <2>11, CommentsKept
    <3>2. pc'[j] # "post"
      BY <2>1, <2>11 DEF Sticky, Step, Start, TestGroup, TestDone, SkipDiff, Fetch, EvaluateHead,
         EvaluateBase, Diff, Verdict, Exit, TestBroken, Abort, At, AfterTest
    <3>3. pc'[j] = "verdict" => ~workflow.comment
      BY <2>1, <2>11 DEF Sticky, Step, Start, TestGroup, TestDone, SkipDiff, Fetch, EvaluateHead,
         EvaluateBase, Diff, Verdict, Exit, TestBroken, Abort, At, AfterTest
    <3>4. QED
      BY <2>5, <2>6, <2>7, <2>8, <3>1, <3>2, <3>3 DEF Serial
  <2>12. QED
    BY <2>9, <2>10, <2>11
<1>3. QED
  BY <1>1, <1>2

\* While jobs do not overlap and comments can be listed there is one comment, and it shows
\* the diff of the job that posted last (the marker of telepathy-ci.sh).
THEOREM GateStickyWhenSerial == Spec => []StickyWhenSerial
<1> DEFINE Inv == Shaped /\ Sticky /\ Serial
<1>1. Init => Inv
  <2> SUFFICES ASSUME Init PROVE Inv
    OBVIOUS
  <2>1. Shaped /\ Sticky
    BY InitShaped, InitSticky
  <2>2. Serial
    BY DEF Init, Serial, Command
  <2>3. QED
    BY <2>1, <2>2
<1>2. Inv /\ [Next]_vars => Inv'
  BY NextShaped, NextSticky, NextSerial, GateAssumption
<1>3. Inv => StickyWhenSerial
  BY DEF Serial, StickyWhenSerial
<1>4. QED
  BY <1>1, <1>2, <1>3, PTL DEF Spec
-----------------------------------------------------------------------------
(* Types *)

\* A job has an exit status once it has ended, and evaluates probes of its own assertions.
Ended(j) ==
  /\ pc[j] = "ended" => exit[j] \in {0, 1}
  /\ todo[j] \subseteq {ProbeOf(Assertions[i], workflow) : i \in Gated}

LEMMA NextEnded ==
  ASSUME Shaped, Sticky, NEW j \in Jobs, Ended(j), [Next]_vars
  PROVE  Ended(j)'
<1> DEFINE own == {ProbeOf(Assertions[i], workflow) : i \in Gated}
<1>1. own' = own
  BY InputsKept DEF Gated, Assertions
<1>2. CASE UNCHANGED <<pc[j], exit[j], todo[j]>>
  BY <1>1, <1>2 DEF Ended
<1>3. ASSUME ~UNCHANGED <<pc[j], exit[j], todo[j]>>
      PROVE  Start(j) \/ Step(j) \/ TestBroken(j) \/ Abort(j)
  <2>1. ~UNCHANGED vars
    BY <1>3 DEF vars, test
  <2>2. PICK o \in Jobs : Start(o) \/ Step(o) \/ TestBroken(o) \/ Abort(o)
    BY <2>1 DEF Next
  <2>3. o # j => UNCHANGED <<pc[j], exit[j]>>
    BY <2>2, OthersKeep DEF Own
  <2>4. o # j => todo'[j] = todo[j]
    BY <2>2 DEF Step, Start, TestGroup, TestDone, SkipDiff, Fetch, EvaluateHead, EvaluateBase, Diff,
                FindComment, PostComment, Verdict, Exit, TestBroken, Abort, test, Shaped, IsIndexed
  <2>5. QED
    BY <1>3, <2>2, <2>3, <2>4
<1>4. ASSUME Start(j) \/ Step(j) \/ TestBroken(j) \/ Abort(j) PROVE Ended(j)'
  <2>1. pc'[j] = "ended" => exit'[j] \in {0, 1}
    BY <1>4 DEF Step, Start, TestGroup, TestDone, SkipDiff, Fetch, EvaluateHead, EvaluateBase, Diff,
       FindComment, PostComment, Verdict, Exit, TestBroken, Abort, At, AfterTest, Shaped, IsIndexed
  <2>2. todo'[j] = own \/ todo'[j] \subseteq todo[j]
    <3>1. CASE Start(j)
      BY <3>1 DEF Start, Shaped, IsIndexed
    <3>2. CASE TestGroup(j)
      <4>1. \E k \in todo[j] : todo' = [todo EXCEPT ![j] = @ \ {k}]
        BY <3>2 DEF TestGroup
      <4>2. QED
        BY <4>1 DEF Shaped, IsIndexed
    <3>3. CASE ~Start(j) /\ ~TestGroup(j)
      BY <1>4, <3>3 DEF Step, TestDone, SkipDiff, Fetch, EvaluateHead, EvaluateBase, Diff,
                        FindComment, PostComment, Verdict, Exit, TestBroken, Abort, test
    <3>4. QED
      BY <3>1, <3>2, <3>3
  <2>3. QED
    BY <1>1, <2>1, <2>2 DEF Ended
<1>5. QED
  BY <1>2, <1>3, <1>4

LEMMA FaultsBounded ==
  ASSUME faults \in 0..MaxFaults, [Next]_vars
  PROVE  faults' \in 0..MaxFaults
<1>1. faults' = faults \/ (faults < MaxFaults /\ faults' = faults + 1)
  BY DEF Next, vars, past, Step, Start, TestGroup, TestDone, SkipDiff, Fetch, EvaluateHead,
         EvaluateBase, Diff, FindComment, PostComment, Verdict, Exit, TestBroken, Abort, MayFail
<1>2. QED
  BY <1>1, GateAssumption

\* The state of every job, and of the pull request, keeps its shape (CiGate's TypeOK).
THEOREM GateTypeOK == Spec => []TypeOK
<1> DEFINE Inv == GateInv /\ Sticky /\ (\A j \in Jobs : Ended(j)) /\ faults \in 0..MaxFaults
<1>1. Init => Inv
  BY InitGateInv, InitSticky, GateAssumption DEF Init, Ended
<1>2. Inv /\ [Next]_vars => Inv'
  BY NextGateInv, NextSticky, NextEnded, FaultsBounded DEF GateInv, TestInv
<1>3. Inv => TypeOK
  <2> SUFFICES ASSUME Inv PROVE TypeOK
    OBVIOUS
  <2>1. ASSUME NEW j \in Jobs
        PROVE  /\ pc[j] \in Command \cup {"pushed", "ended"}
               /\ fail[j] \in BOOLEAN
               /\ exit[j] \in {0, 1, None} /\ (exit[j] # None <=> pc[j] = "ended")
               /\ todo[j] \subseteq {ProbeOf(Assertions[i], workflow) : i \in Gated}
               /\ DOMAIN results[j] \in {{}, DOMAIN Assertions}
               /\ found[j] \in {None} \cup DOMAIN comments
    <3>1. Shaped /\ Judged(j) /\ Honest(j) /\ Ended(j)
      BY DEF GateInv, TestInv
    <3>2. exit[j] \in {0, 1, None} /\ (exit[j] # None <=> pc[j] = "ended")
      BY <3>1, GateAssumption DEF Honest, Ended
    <3>3. DOMAIN results[j] \in {{}, DOMAIN Assertions}
      BY <3>1 DEF Judged
    <3>4. QED
      BY <3>1, <3>2, <3>3 DEF Shaped, Sticky, Ended
  <2>2. QED
    BY <2>1 DEF TypeOK, Command
<1>4. QED
  BY <1>1, <1>2, <1>3, PTL DEF Spec
-----------------------------------------------------------------------------
(* The errors *)

Unrepeated(s) == \A m, n \in DOMAIN s : s[m] = s[n] => m = n

\* What is new of a list and in the old one not: all of it, and each once.
LEMMA DeduplicatedOnce ==
  ASSUME NEW old, old \in Seq(Range(old)), Unrepeated(old),
         NEW new, new \in Seq(Range(new))
  PROVE  LET all == Deduplicated(old, new)
         IN  /\ all \in Seq(Range(all))
             /\ Range(all) = Range(old) \cup Range(new)
             /\ Unrepeated(all)
<1> DEFINE fresh == {n \in DOMAIN new : /\ new[n] \notin Range(old)
                                        /\ \A m \in 1..(n - 1) : new[m] # new[n]}
           added == Kept(new, fresh)
           S     == Range(old) \cup Range(new)
<1>0. Deduplicated(old, new) = old \o added
  BY DEF Deduplicated
<1>1. /\ Len(new) \in Nat /\ DOMAIN new = 1..Len(new)
      /\ \A n \in 1..Len(new) : new[n] \in S
      /\ old \in Seq(S)
  BY DEF Range
<1>2. fresh \subseteq 1..Len(new)
  BY <1>1
<1>3. PICK pos : Picks(added, new, fresh, pos)
  <2> HIDE DEF fresh
  <2>1. QED
    BY <1>1, <1>2, KeptIs
<1>4. added \in Seq(S)
  <2> HIDE DEF fresh, S
  <2>1. QED
    BY <1>1, <1>2, KeptType
<1>5. \A v \in Range(new) \ Range(old) : \E n \in fresh : new[n] = v
  <2> SUFFICES ASSUME NEW v \in Range(new), v \notin Range(old)
               PROVE  \E n \in fresh : new[n] = v
    OBVIOUS
  <2> DEFINE T == {n \in DOMAIN new : new[n] = v}
  <2>1. T \subseteq Nat /\ T # {}
    BY <1>1 DEF Range
  <2>2. PICK n \in T : \A k \in T : n <= k
    <3> HIDE DEF T
    <3>1. QED
      BY <2>1, LeastIs
  <2>3. \A m \in 1..(n - 1) : new[m] # new[n]
    <3>1. ASSUME NEW m \in 1..(n - 1), new[m] = new[n]
          PROVE  FALSE
      <4>1. m \in DOMAIN new /\ m \in T /\ m < n
        BY <1>1, <2>2, <3>1
      <4>2. QED
        BY <2>1, <2>2, <4>1
    <3>2. QED
      BY <3>1
  <2>4. QED
    BY <2>2, <2>3
<1>6. /\ \A m \in DOMAIN added : added[m] = new[pos[m]] /\ pos[m] \in fresh
      /\ \A n \in fresh : \E m \in DOMAIN added : pos[m] = n
      /\ \A l, m \in DOMAIN added : l < m => pos[l] < pos[m]
  BY <1>3 DEF Picks
<1>7. /\ Len(added) \in Nat /\ DOMAIN added = 1..Len(added)
      /\ Len(old) \in Nat /\ DOMAIN old = 1..Len(old)
  <2> HIDE DEF added, S
  <2>1. QED
    BY <1>1, <1>4
<1>8. Unrepeated(added) /\ \A m \in DOMAIN added : added[m] \notin Range(old)
  <2>1. \A m, n \in fresh : m < n => new[m] # new[n]
    BY <1>1
  <2>2. ASSUME NEW l \in DOMAIN added, NEW m \in DOMAIN added, l < m
        PROVE  added[l] # added[m]
    BY <1>6, <2>1, <2>2
  <2>3. \A l, m \in DOMAIN added : l < m \/ m < l \/ l = m
    BY <1>7
  <2>4. QED
    BY <1>6, <2>2, <2>3 DEF Unrepeated
<1> HIDE DEF fresh, added
<1>9. /\ old \o added \in Seq(S) /\ DOMAIN (old \o added) = 1..(Len(old) + Len(added))
      /\ \A k \in DOMAIN (old \o added) :
           \/ k \in DOMAIN old /\ (old \o added)[k] = old[k]
           \/ /\ k \notin DOMAIN old /\ k - Len(old) \in DOMAIN added
              /\ (old \o added)[k] = added[k - Len(old)]
  BY <1>1, <1>4, <1>7
<1>10. Range(old \o added) = Range(old) \cup Range(new)
  <2>1. Range(old \o added) \subseteq S
    <3>1. \A k \in DOMAIN (old \o added) : (old \o added)[k] \in S
      <4> HIDE DEF S
      <4>1. QED
        BY <1>9
    <3>2. QED
      BY <3>1 DEF Range
  <2>2. Range(old) \subseteq Range(old \o added)
    <3>1. \A k \in DOMAIN old : k \in DOMAIN (old \o added) /\ (old \o added)[k] = old[k]
      BY <1>7, <1>9
    <3>2. QED
      BY <3>1 DEF Range
  <2>3. Range(added) \subseteq Range(old \o added)
    <3>1. \A k \in DOMAIN added :
            /\ k + Len(old) \in DOMAIN (old \o added)
            /\ (old \o added)[k + Len(old)] = added[k]
      BY <1>1, <1>4, <1>7, <1>9
    <3>2. QED
      BY <3>1 DEF Range
  <2>4. Range(new) \ Range(old) \subseteq Range(added)
    <3> SUFFICES ASSUME NEW v \in Range(new), v \notin Range(old)
                 PROVE  v \in Range(added)
      OBVIOUS
    <3>1. PICK n \in fresh : new[n] = v
      BY <1>5
    <3>2. PICK m \in DOMAIN added : pos[m] = n
      BY <1>6
    <3>3. added[m] = v
      BY <1>6, <3>1, <3>2
    <3>4. QED
      BY <3>3 DEF Range
  <2>5. QED
    BY <2>1, <2>2, <2>3, <2>4
<1>11. Unrepeated(old \o added)
  <2> SUFFICES ASSUME NEW m \in DOMAIN (old \o added), NEW n \in DOMAIN (old \o added),
                      (old \o added)[m] = (old \o added)[n]
               PROVE  m = n
    BY DEF Unrepeated
  <2>1. CASE m \in DOMAIN old /\ n \in DOMAIN old
    BY <1>9, <2>1 DEF Unrepeated
  <2>2. CASE m \notin DOMAIN old /\ n \notin DOMAIN old
    <3>1. m - Len(old) = n - Len(old)
      BY <1>8, <1>9, <2>2 DEF Unrepeated
    <3>2. QED
      BY <1>7, <1>9, <3>1
  <2>3. CASE ~(m \in DOMAIN old <=> n \in DOMAIN old)
    BY <1>8, <1>9, <2>3 DEF Range
  <2>4. QED
    BY <2>1, <2>2, <2>3
<1>12. old \o added \in Seq(Range(old \o added))
  BY <1>9, <1>10
<1>13. QED
  BY <1>0, <1>10, <1>11, <1>12

\* The probes the assertions ask for, and those that were evaluated.
Wanted == {ProbeOf(Assertions[i], workflow) : i \in Gated}
Tried(j) == {k \in Wanted \ todo[j] : pc[j] # "pushed"}

Surfaced(j) ==
  /\ errors[j] \in Seq(Range(errors[j]))
  /\ Unrepeated(errors[j])
  /\ Range(errors[j]) = UNION {Range(head[j][k].errors) : k \in Tried(j)}
  /\ todo[j] \subseteq Wanted

SurfacedInv == Shaped /\ IsIndexed(errors) /\ \A j \in Jobs : Surfaced(j)

LEMMA SurfacedStable ==
  ASSUME NEW o \in Jobs, Surfaced(o), UNCHANGED <<workflow, head>>,
         todo'[o] = todo[o], errors'[o] = errors[o], pc'[o] = "pushed" <=> pc[o] = "pushed"
  PROVE  Surfaced(o)'
BY DEF Surfaced, Tried, Wanted, Gated, Assertions, Unrepeated

LEMMA SurfacedStart ==
  ASSUME SurfacedInv, NEW j \in Jobs, NEW o \in Jobs, Start(o)
  PROVE  Surfaced(j)'
<1>1. UNCHANGED <<workflow, head, errors>> /\ Surfaced(j)
  BY DEF Start, inputs, SurfacedInv
<1>2. CASE j # o
  BY <1>1, <1>2, SurfacedStable DEF Start, Shaped, IsIndexed, SurfacedInv
<1>3. CASE j = o
  <2>1. pc[j] = "pushed" /\ todo'[j] = Wanted
    BY <1>3 DEF Start, Shaped, IsIndexed, Wanted, SurfacedInv
  <2>2. Wanted' = Wanted
    BY <1>1 DEF Wanted, Gated, Assertions
  <2>3. Tried(j) = {} /\ Tried(j)' = {}
    BY <2>1, <2>2 DEF Tried
  <2>4. UNION {Range(head[j][k].errors) : k \in Tried(j)}
          = (UNION {Range(head[j][k].errors) : k \in Tried(j)})'
    BY <1>1, <2>3
  <2>5. QED
    BY <1>1, <2>1, <2>2, <2>4 DEF Surfaced, Unrepeated
<1>4. QED
  BY <1>2, <1>3

LEMMA SurfacedTestGroup ==
  ASSUME SurfacedInv, NEW j \in Jobs, NEW o \in Jobs, TestGroup(o)
  PROVE  Surfaced(j)'
<1>1. UNCHANGED <<workflow, head>> /\ Surfaced(j)
  BY DEF TestGroup, inputs, SurfacedInv
<1>2. CASE j # o
  BY <1>1, <1>2, SurfacedStable DEF TestGroup, At, Shaped, IsIndexed, SurfacedInv
<1>3. CASE j = o
  <2>1. PICK k \in todo[j] :
          /\ \E asked \in {{Flow(Assertions[i]) : i \in Group(k)}, DOMAIN head[j][k].matrix} :
               errors' = [errors EXCEPT ![j] = Deduplicated(@, Response(head[j], k, asked).errors)]
          /\ todo' = [todo EXCEPT ![j] = @ \ {k}]
    BY <1>3 DEF TestGroup
  <2>2. k \in Wanted /\ todo[j] \subseteq Wanted
    BY <1>1, <2>1 DEF Surfaced
  <2>3. k \in DOMAIN head[j] /\ head[j] \in Revisions
    BY <2>2, GatedProbes DEF Wanted, Shaped, SurfacedInv
  <2>4. \A asked : Response(head[j], k, asked).errors = head[j][k].errors
    BY <2>3, RevisionsAssumption DEF Response
  <2>5. errors'[j] = Deduplicated(errors[j], head[j][k].errors)
    BY <2>1, <2>4 DEF SurfacedInv, IsIndexed
  <2>6. /\ errors'[j] \in Seq(Range(errors'[j]))
        /\ Range(errors'[j]) = Range(errors[j]) \cup Range(head[j][k].errors)
        /\ Unrepeated(errors'[j])
    <3>1. errors[j] \in Seq(Range(errors[j])) /\ Unrepeated(errors[j])
      BY <1>1 DEF Surfaced
    <3>2. head[j][k].errors \in Seq(Range(head[j][k].errors))
      BY <2>3, RevisionsAssumption
    <3> DEFINE old == errors[j]
               new == head[j][k].errors
               all == Deduplicated(old, new)
    <3>3. /\ all \in Seq(Range(all))
          /\ Range(all) = Range(old) \cup Range(new)
          /\ Unrepeated(all)
      <4> HIDE DEF old, new
      <4>1. old \in Seq(Range(old)) /\ Unrepeated(old) /\ new \in Seq(Range(new))
        BY <3>1, <3>2 DEF old, new
      <4>2. QED
        BY SMTT(30), <4>1, DeduplicatedOnce
    <3> HIDE DEF all
    <3>4. all = errors'[j]
      BY <2>5 DEF all
    <3>5. QED
      BY <3>3, <3>4
  <2>7. /\ pc[j] # "pushed" /\ pc'[j] # "pushed"
        /\ todo'[j] = todo[j] \ {k}
    BY <1>3, <2>1 DEF TestGroup, At, Shaped, IsIndexed, SurfacedInv
  <2>8. Wanted' = Wanted
    BY <1>1 DEF Wanted, Gated, Assertions
  <2>9. Tried(j)' = Tried(j) \cup {k}
    BY <2>1, <2>2, <2>7, <2>8 DEF Tried
  <2>10. Range(errors'[j]) = UNION {Range(head[j][l].errors) : l \in Tried(j) \cup {k}}
    BY <1>1, <2>6 DEF Surfaced
  <2>11. (UNION {Range(head[j][l].errors) : l \in Tried(j)})'
           = UNION {Range(head[j][l].errors) : l \in Tried(j) \cup {k}}
    BY <1>1, <2>9
  <2>12. QED
    BY <2>2, <2>6, <2>7, <2>8, <2>10, <2>11 DEF Surfaced, Unrepeated
<1>4. QED
  BY <1>2, <1>3

\* Other commands than those of the test leave the errors alone.
LEMMA SurfacedElsewhere ==
  ASSUME SurfacedInv, NEW j \in Jobs, NEW o \in Jobs,
         \/ UNCHANGED vars
         \/ TestDone(o) \/ SkipDiff(o) \/ Fetch(o) \/ EvaluateHead(o) \/ EvaluateBase(o) \/ Diff(o)
         \/ FindComment(o) \/ PostComment(o) \/ Verdict(o) \/ Exit(o) \/ TestBroken(o) \/ Abort(o)
  PROVE  Surfaced(j)'
<1>1. UNCHANGED <<workflow, head, todo, errors>> /\ Surfaced(j) /\ Shaped
  BY DEF vars, inputs, test, TestDone, SkipDiff, Fetch, EvaluateHead, EvaluateBase, Diff,
         FindComment, PostComment, Verdict, Exit, TestBroken, Abort, SurfacedInv
<1>2. pc'[j] = "pushed" <=> pc[j] = "pushed"
  BY <1>1, PushedKept
<1>3. QED
  BY <1>1, <1>2, SurfacedStable

LEMMA NextSurfaced ==
  ASSUME SurfacedInv, [Next]_vars
  PROVE  SurfacedInv'
<1>1. Shaped'
  BY NextShaped DEF SurfacedInv
<1>2. IsIndexed(errors)'
  <2>1. \/ UNCHANGED errors
        \/ \E j \in Jobs : \E new : errors' = [errors EXCEPT ![j] = new]
    BY DEF Next, Step, vars, inputs, test, Start, TestGroup, TestDone, SkipDiff, Fetch, EvaluateHead,
           EvaluateBase, Diff, FindComment, PostComment, Verdict, Exit, TestBroken, Abort
  <2>2. QED
    BY <2>1 DEF SurfacedInv, IsIndexed
<1>3. ASSUME NEW j \in Jobs PROVE Surfaced(j)'
  <2>1. CASE UNCHANGED vars
    BY <2>1, SurfacedElsewhere
  <2>2. CASE Next
    <3>1. PICK o \in Jobs : Start(o) \/ Step(o) \/ TestBroken(o) \/ Abort(o)
      BY <2>2 DEF Next
    <3>2. CASE Start(o)
      BY <3>2, SurfacedStart
    <3>3. CASE TestGroup(o)
      BY <3>3, SurfacedTestGroup
    <3>4. QED
      BY <3>1, <3>2, <3>3, SurfacedElsewhere DEF Step
  <2>3. QED
    BY <2>1, <2>2
<1>4. QED
  BY <1>1, <1>2, <1>3 DEF SurfacedInv

LEMMA InitSurfaced == Init => SurfacedInv
<1> SUFFICES ASSUME Init PROVE SurfacedInv
  OBVIOUS
<1>1. Shaped
  BY InitShaped
<1>2. IsIndexed(errors) /\ \A j \in Jobs : errors[j] = <<>> /\ todo[j] = {} /\ pc[j] = "pushed"
  BY DEF Init, IsIndexed
<1>3. Range(<<>>) = {} /\ <<>> \in Seq({}) /\ Unrepeated(<<>>)
  BY DEF Range, Unrepeated
<1>4. ASSUME NEW j \in Jobs PROVE Surfaced(j)
  <2>1. Tried(j) = {}
    BY <1>2 DEF Tried
  <2>2. UNION {Range(head[j][k].errors) : k \in Tried(j)} = {}
    BY <2>1
  <2>3. QED
    BY <1>2, <1>3, <2>2 DEF Surfaced
<1>5. QED
  BY <1>1, <1>2, <1>4 DEF SurfacedInv

\* Whatever the engine complains of in the evaluations of a test, one for each probe, is
\* reported, and once (api.RunAssertions).
THEOREM GateErrorsSurfacedOnce == Spec => []ErrorsSurfacedOnce
<1>1. SurfacedInv => ErrorsSurfacedOnce
  BY DEF SurfacedInv, Surfaced, Unrepeated, Tried, Wanted, ErrorsSurfacedOnce
<1>2. QED
  BY <1>1, InitSurfaced, NextSurfaced, PTL DEF Spec
=============================================================================
