------------------------------- MODULE CiGate -------------------------------
(***************************************************************************)
(* The checks of a pull request (hacks/telepathy-ci.sh, with the test and  *)
(* diff commands of main.go and api.RunAssertions).  Each push starts a    *)
(* job; jobs run at the same time and share nothing but the comments of    *)
(* the pull request.  In a job any command may fail, and the shell stops   *)
(* at it (set -e) except where the script says otherwise.                  *)
(*                                                                         *)
(* A workflow is [mode, assertions, port, protocol, baseRef, comment,      *)
(* failOnDiff]; comment says that there is a pull request, a token and the *)
(* wish.  A revision is a function from probes to [matrix, errors].        *)
(***************************************************************************)
EXTENDS Report, Lists

CONSTANTS
  Workflows,
  Revisions,    \* what a push or the base ref may hold
  Jobs,
  NoFile,       \* no assertions input
  None,
  MaxFaults     \* bound: commands that fail, all jobs together

ASSUME GateAssumption ==
  /\ MaxFaults \in Nat
  /\ None \notin {0, 1} /\ None \notin Revisions
  /\ \A w \in Workflows : \/ w.assertions = NoFile
                         \/ w.assertions \in Seq({w.assertions[i] : i \in DOMAIN w.assertions})

\* The probes a workflow can ask for: the request's own, and those of its assertions.
Probes(w) ==
  {ProbeOf([port |-> 0, protocol |-> ""], w)}
    \cup IF w.assertions = NoFile THEN {} ELSE {ProbeOf(a, w) : a \in Range(w.assertions)}

\* An engine answers every probe, and with verdicts.
ASSUME RevisionsAssumption ==
  \A rev \in Revisions :
    /\ \A w \in Workflows : Probes(w) \subseteq DOMAIN rev
    /\ \A k \in DOMAIN rev :
         /\ rev[k] = [matrix |-> rev[k].matrix, errors |-> rev[k].errors]
         /\ rev[k].errors \in Seq(Range(rev[k].errors))
         /\ \A f \in DOMAIN rev[k].matrix : rev[k].matrix[f] \in {"allow", "deny"}

VARIABLES
  workflow,
  head,       \* job -> the revision pushed
  base,       \* job -> the revision the base ref had when it was fetched
  pc,         \* job -> the command it is at
  todo,       \* job -> the probes to evaluate
  results,    \* job -> result of each assertion
  errors,     \* job -> errors of the engine, in the order they are reported
  answers,    \* job -> [head, base]: the two responses
  report,     \* job -> the diff
  found,      \* job -> the comment to update
  fail,       \* job -> the script's flag
  exit,       \* job -> exit status
  comments,   \* what carries the marker on the pull request: <<[by, report], ...>>
  faults,
  faulted,    \* history: jobs in which a command failed
  unlisted,   \* history: a listing of comments failed
  overlap     \* history: two jobs ran at the same time

inputs == <<workflow, head>>
test   == <<todo, results, errors>>
diff   == <<base, answers, report>>
past   == <<faults, faulted, unlisted>>
vars   == <<inputs, pc, test, diff, found, fail, exit, comments, past, overlap>>
-----------------------------------------------------------------------------
Mode ==
  IF workflow.mode # "auto" THEN workflow.mode
  ELSE IF workflow.assertions # NoFile THEN "both" ELSE "diff"

Tests == Mode \in {"test", "both"} /\ workflow.assertions # NoFile
Diffs == Mode \in {"diff", "both"}

\* Commands at which the shell gives up.
Refused == Mode \notin {"test", "diff", "both"} \/ (Mode = "test" /\ workflow.assertions = NoFile)

Assertions == IF workflow.assertions = NoFile THEN <<>> ELSE workflow.assertions
Gated == {i \in DOMAIN Assertions : WellFormed(Assertions[i])}

\* Variant: assertions are grouped by their port.
Group_Port(k) == {i \in Gated : ProbeOf(Assertions[i], workflow)[1] = k[1]}
Group(k) == {i \in Gated : ProbeOf(Assertions[i], workflow) = k}

\* What the engine says of one revision under one probe.  An engine that knows of
\* MatrixPairs answers no more than was asked.
Response(rev, k, asked) == [rev[k] EXCEPT !.matrix = Restrict(@, DOMAIN @ \cap asked)]

\* The request's own probe.
Default == ProbeOf([port |-> 0, protocol |-> ""], workflow)

\* Variant: an error is reported for each probe that has it.
Deduplicated_Concat(old, new) == old \o new

Deduplicated(old, new) ==
  old \o Kept(new, {n \in DOMAIN new : /\ new[n] \notin Range(old)
                                       /\ \A m \in 1..(n - 1) : new[m] # new[n]})

At(j, here, there) == pc[j] = here /\ pc' = [pc EXCEPT ![j] = there]
-----------------------------------------------------------------------------
Init ==
  /\ workflow \in Workflows
  /\ head \in [Jobs -> Revisions]
  /\ base = [j \in Jobs |-> None]
  /\ pc = [j \in Jobs |-> "pushed"]
  /\ todo = [j \in Jobs |-> {}]
  /\ results = [j \in Jobs |-> <<>>]
  /\ errors = [j \in Jobs |-> <<>>]
  /\ answers = [j \in Jobs |-> [head |-> None, base |-> None]]
  /\ report = [j \in Jobs |-> None]
  /\ found = [j \in Jobs |-> None]
  /\ fail = [j \in Jobs |-> FALSE]
  /\ exit = [j \in Jobs |-> None]
  /\ comments = <<>>
  /\ faults = 0 /\ faulted = {} /\ unlisted = FALSE /\ overlap = FALSE

Running(j) == pc[j] \notin {"pushed", "ended"}

\* telepathy test begins by setting malformed assertions apart and grouping the
\* others by their probe.
Start(j) ==
  /\ pc[j] = "pushed"
  /\ pc' = [pc EXCEPT ![j] = IF Refused THEN "ended" ELSE IF Tests THEN "test" ELSE "diff"]
  /\ exit' = [exit EXCEPT ![j] = IF Refused THEN 1 ELSE None]
  /\ todo' = [todo EXCEPT ![j] = {ProbeOf(Assertions[i], workflow) : i \in Gated}]
  /\ results' = [results EXCEPT ![j] =
                   [i \in DOMAIN Assertions |-> IF i \in Gated THEN None ELSE Malformed]]
  /\ overlap' = (overlap \/ \E o \in Jobs \ {j} : Running(o))
  /\ UNCHANGED <<inputs, errors, diff, found, fail, comments, past>>

\* Variant: results are collected in the order of evaluation.
TestGroup_Collected(j) ==
  /\ At(j, "test", "test")
  /\ \E k \in todo[j] :
       /\ \A l \in todo[j] : ProbeBefore(k, l)
       /\ results' = [results EXCEPT ![j] =
                        [i \in Group(k) |-> CheckAssertion(Assertions[i], head[j][k].matrix)]]
       /\ todo' = [todo EXCEPT ![j] = @ \ {k}]
  /\ UNCHANGED <<inputs, errors, diff, found, fail, exit, comments, past, overlap>>

\* Variant: the same probe over and over.
TestGroup_Again(j) ==
  /\ At(j, "test", "test")
  /\ todo[j] # {}
  /\ fail' = [fail EXCEPT ![j] = ~@]
  /\ UNCHANGED <<inputs, test, diff, found, exit, comments, past, overlap>>

\* One evaluation per probe; its results go back to where the assertions stand.
TestGroup(j) ==
  /\ At(j, "test", "test")
  /\ \E k \in todo[j] :
       /\ \A l \in todo[j] : ProbeBefore(k, l)
       /\ \E asked \in {{Flow(Assertions[i]) : i \in Group(k)}, DOMAIN head[j][k].matrix} :
            LET resp == Response(head[j], k, asked)
            IN  /\ errors' = [errors EXCEPT ![j] = Deduplicated(@, resp.errors)]
                /\ results' = [results EXCEPT ![j] =
                                 [i \in DOMAIN @ |->
                                    IF i \in Group(k) THEN CheckAssertion(Assertions[i], resp.matrix)
                                    ELSE @[i]]]
       /\ todo' = [todo EXCEPT ![j] = @ \ {k}]
  /\ UNCHANGED <<inputs, diff, found, fail, exit, comments, past, overlap>>

AfterTest == IF Mode = "test" THEN "exit" ELSE "diff"

TestDone(j) ==
  /\ At(j, "test", AfterTest)
  /\ todo[j] = {}
  /\ fail' = [fail EXCEPT ![j] = ~Ok(results[j])]
  /\ UNCHANGED <<inputs, test, diff, found, exit, comments, past, overlap>>

MayFail(j) ==
  /\ faults < MaxFaults
  /\ faults' = faults + 1 /\ faulted' = faulted \cup {j}

\* The test command itself fails: as a failed assertion.
TestBroken(j) ==
  /\ At(j, "test", AfterTest)
  /\ MayFail(j)
  /\ fail' = [fail EXCEPT ![j] = TRUE]
  /\ UNCHANGED <<inputs, test, diff, found, exit, comments, unlisted, overlap>>

SkipDiff(j) ==
  /\ At(j, "diff", "exit")
  /\ ~workflow.baseRef
  /\ UNCHANGED <<inputs, test, diff, found, fail, exit, comments, past, overlap>>

\* The base ref is fetched; it may have moved since another job did.
Fetch(j) ==
  /\ At(j, "diff", "head")
  /\ workflow.baseRef
  /\ \E rev \in Revisions : base' = [base EXCEPT ![j] = rev]
  /\ UNCHANGED <<inputs, test, answers, report, found, fail, exit, comments, past, overlap>>

EvaluateHead(j) ==
  /\ At(j, "head", "base")
  /\ answers' = [answers EXCEPT ![j].head = head[j][Default]]
  /\ UNCHANGED <<inputs, test, base, report, found, fail, exit, comments, past, overlap>>

EvaluateBase(j) ==
  /\ At(j, "base", "report")
  /\ answers' = [answers EXCEPT ![j].base = base[j][Default]]
  /\ UNCHANGED <<inputs, test, base, report, found, fail, exit, comments, past, overlap>>

\* Both formats are of one report.
Diff(j) ==
  /\ At(j, "report", IF workflow.comment THEN "find" ELSE "verdict")
  /\ report' = [report EXCEPT ![j] = DiffResponses(answers[j].base, answers[j].head)]
  /\ UNCHANGED <<inputs, test, base, answers, found, fail, exit, comments, past, overlap>>

\* The first comment with the marker.  A listing that fails finds none (|| true).
FindComment(j) ==
  /\ At(j, "find", "post")
  /\ \/ /\ found' = [found EXCEPT ![j] = IF comments = <<>> THEN None ELSE 1]
        /\ UNCHANGED past
     \/ /\ MayFail(j)
        /\ unlisted' = TRUE
        /\ found' = [found EXCEPT ![j] = None]
  /\ UNCHANGED <<inputs, test, diff, fail, exit, comments, overlap>>

\* Variant: the comment is always a new one.
PostComment_Always(j) ==
  /\ At(j, "post", "verdict")
  /\ comments' = Append(comments, [by |-> j, report |-> report[j]])
  /\ UNCHANGED <<inputs, test, diff, found, fail, exit, past, overlap>>

PostComment(j) ==
  /\ At(j, "post", "verdict")
  /\ LET comment == [by |-> j, report |-> report[j]]
     IN  comments' = IF found[j] = None THEN Append(comments, comment)
                     ELSE [comments EXCEPT ![found[j]] = comment]
  /\ UNCHANGED <<inputs, test, diff, found, fail, exit, past, overlap>>

\* Variant: the diff alone decides.
Verdict_Reset(j) ==
  /\ At(j, "verdict", "exit")
  /\ fail' = [fail EXCEPT ![j] = workflow.failOnDiff /\ Changes(report[j].kinds) # {}]
  /\ UNCHANGED <<inputs, test, diff, found, exit, comments, past, overlap>>

Verdict(j) ==
  /\ At(j, "verdict", "exit")
  /\ fail' = [fail EXCEPT ![j] = @ \/ (workflow.failOnDiff /\ Changes(report[j].kinds) # {})]
  /\ UNCHANGED <<inputs, test, diff, found, exit, comments, past, overlap>>

Exit(j) ==
  /\ At(j, "exit", "ended")
  /\ exit' = [exit EXCEPT ![j] = IF fail[j] THEN 1 ELSE 0]
  /\ UNCHANGED <<inputs, test, diff, found, fail, comments, past, overlap>>

\* Any other command that fails ends the job at once.
Abort(j) ==
  /\ pc[j] \in {"diff", "head", "base", "report", "post"}
  /\ pc[j] = "diff" => workflow.baseRef
  /\ pc' = [pc EXCEPT ![j] = "ended"]
  /\ exit' = [exit EXCEPT ![j] = 1]
  /\ MayFail(j)
  /\ UNCHANGED <<inputs, test, diff, found, fail, comments, unlisted, overlap>>

Step(j) ==
  \/ TestGroup(j) \/ TestDone(j) \/ SkipDiff(j) \/ Fetch(j) \/ EvaluateHead(j)
  \/ EvaluateBase(j) \/ Diff(j) \/ FindComment(j) \/ PostComment(j) \/ Verdict(j) \/ Exit(j)

Next == \E j \in Jobs : Start(j) \/ Step(j) \/ TestBroken(j) \/ Abort(j)

Spec == Init /\ [][Next]_vars

\* Every command of a job returns; nothing makes a push happen.
FairSpec == Spec /\ \A j \in Jobs : WF_vars(Step(j))
-----------------------------------------------------------------------------
TypeOK ==
  /\ \A j \in Jobs :
       /\ pc[j] \in {"pushed", "test", "diff", "head", "base", "report", "find", "post",
                     "verdict", "exit", "ended"}
       /\ fail[j] \in BOOLEAN
       /\ exit[j] \in {0, 1, None} /\ (exit[j] # None <=> pc[j] = "ended")
       /\ todo[j] \subseteq {ProbeOf(Assertions[i], workflow) : i \in Gated}
       /\ DOMAIN results[j] \in {{}, DOMAIN Assertions}
       /\ found[j] \in {None} \cup DOMAIN comments
  /\ faults \in 0..MaxFaults

\* Whatever is grouped with it and in whatever order the groups are evaluated, an
\* assertion gets the result it would get alone, against the complete matrix of its
\* own probe.
ResultsExact ==
  \A j \in Jobs : \A i \in DOMAIN results[j] :
    LET a == Assertions[i]
    IN  results[j][i] =
          IF ~WellFormed(a) THEN Malformed
          ELSE IF ProbeOf(a, workflow) \in todo[j] THEN None
          ELSE CheckAssertion(a, head[j][ProbeOf(a, workflow)].matrix)

Reachable(rev) ==
  {f \in DOMAIN rev[Default].matrix : rev[Default].matrix[f] = "allow"}

Holds(j, a) ==
  LET m == head[j][ProbeOf(a, workflow)].matrix
  IN  WellFormed(a) /\ Flow(a) \in DOMAIN m /\ m[Flow(a)] = a.expect

Tested(j) == Tests => Assertions # <<>> /\ \A i \in DOMAIN Assertions : Holds(j, Assertions[i])

Unchanged(j) ==
  Diffs /\ workflow.baseRef /\ workflow.failOnDiff /\ base[j] # None =>
    Reachable(head[j]) = Reachable(base[j])

\* The check of a push is green exactly when its revision keeps every assertion of a
\* file that asserts something and, where any change is to fail it, reaches exactly
\* what the base reaches, unless a command failed: nothing turns red to green.
OutcomeExact ==
  \A j \in Jobs :
    /\ exit[j] = 0 => Tested(j) /\ Unchanged(j) /\ ~Refused
    /\ exit[j] = 1 => ~Tested(j) \/ ~Unchanged(j) \/ Refused \/ j \in faulted

Shows(j, r) ==
  /\ r.kinds.opened \cup r.kinds.added   = Reachable(head[j]) \ Reachable(base[j])
  /\ r.kinds.closed \cup r.kinds.removed = Reachable(base[j]) \ Reachable(head[j])
  /\ r.errors = head[j][Default].errors

\* What a diff shows is exactly what became reachable and what no longer is.
DiffExact ==
  \A j \in Jobs : report[j] # None => Shows(j, report[j])

\* An error of the engine is reported once, whichever evaluations had it.
ErrorsSurfacedOnce ==
  \A j \in Jobs :
    LET done == {k \in {ProbeOf(Assertions[i], workflow) : i \in Gated} \ todo[j] :
                   pc[j] # "pushed"}
    IN  /\ Range(errors[j]) = UNION {Range(head[j][k].errors) : k \in done}
        /\ \A m, n \in DOMAIN errors[j] : errors[j][m] = errors[j][n] => m = n

\* While jobs do not overlap and comments can be listed there is one comment, and it
\* shows the diff of the last job that got as far as to post one.
StickyWhenSerial ==
  ~overlap /\ ~unlisted =>
    /\ Len(comments) <= 1
    /\ \A j \in Jobs : pc[j] = "verdict" /\ workflow.comment =>
         comments[1] = [by |-> j, report |-> report[j]]

\* Gating the streamed matrix of the request's probe gives the results of evaluating
\* again, as long as no assertion asks for another probe.
FileRouteAgrees ==
  \A j \in Jobs :
    (pc[j] # "pushed" /\ todo[j] = {} /\ \A i \in Gated : ProbeOf(Assertions[i], workflow) = Default)
      => RunAssertionsFromMatrixFile(head[j][Default].matrix, Assertions) = results[j]

\* Every job that begins comes to an end.
JobEnds == \A j \in Jobs : Running(j) ~> pc[j] = "ended"
=============================================================================
