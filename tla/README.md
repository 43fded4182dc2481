# Telepathy in TLA+

Telepathy answers, without a cluster, which of a set of endpoints can reach which under a set of
network policies. It is only of use if its answer is *exactly* that of the dataplane, so most of
what is specified here is of one shape: a fast, incremental, streamed or cached computation is
shown to give the same verdicts as the plain reading of the policies. The rest is the machinery
around the answer: the gate that turns it into a red or green check of a pull request, and the
end-to-end harness that keeps the answer honest against live clusters.

Paths below are relative to the repository.

- [1 The system](#1-the-system)
- [2 Modules](#2-modules)
- [3 What the runs check](#3-what-the-runs-check)
- [4 What is proved](#4-what-is-proved)
- [5 Assumptions: bounds, fairness, libraries](#5-assumptions-bounds-fairness-libraries)
- [6 Where code and text disagree](#6-where-code-and-text-disagree)
- [7 What is not modelled](#7-what-is-not-modelled)
- [8 Plan](#8-plan)

## 1 The system

```
 request files ──▶ main.go ──▶ provider registry ──┬──▶ provider/calico   (in process, Felix as a library)
                     │                             └──▶ proxy.go ──▶ engines/antrea, engines/cilium (child processes)
                     ├── api.RunAssertions, runAssertionsFromMatrixFile   (telepathy test)
                     ├── api.DiffResponses                                (telepathy diff)
                     └── hacks/telepathy-ci.sh, action.yml                (a pull request's check)
 e2e/  ──▶ kubectl, docker on a live cluster, compared with the same Evaluate
```

| Component | State | Operations | What makes it correct |
|---|---|---|---|
| **Policy feed** `graph.go`, `feed.go`, `resources.go`, `icmp.go` | Felix's calculation graph | merge pasted objects, convert, filter by the ICMP probe, feed | the graph holds what the documents say, in whatever order they come |
| **Calico sweep** `provider/calico/eval.go`, `pairs.go`, `matrix.go`, `flow.go` | one sweep: actors, the sink (matrix in memory, stream, latched write error), positions of its loops, the response | build actors; fill by pairs, by classes or exactly; service columns; actor report; flush | whatever the mode, each pair is there once, with the verdict of `evalFlow`; nothing is lost in silence |
| **Collapse** `provider/calico/collapse.go` | classes of peers and owners, memo | probes, signatures, fingerprints, grouping, one evaluation per class pair | a class answers for all its members |
| **Dataplane renderers** `bpf.go`, `iptables.go` | none beyond a call | compile an endpoint's program, choose the chains to render | the program decides as the matrix; no chain that is jumped to is missing |
| **Windows HNS** `hns.go` | the flat list of ACLs | flatten tiers into one, combine rules, assign priorities, warn | the list decides as the tiers, or the linter warns |
| **Tier resolution** `tiermatch.go` | none | build a graph, list what selects an endpoint | shows the graph that the matrix is made from |
| **Cost** `api/cost.go` | none | score policies, advise | a rule that is called dead weight is |
| **Antrea engine** `engines/antrea` | harness (pods, resolved policies), index per probe | load, index, sweep | the index answers as the rule-by-rule check |
| **Cilium engine** `engines/cilium` | repository, identities, index | load (with rollback), index, sweep with `LookupFlow` | a pair allowed without a lookup would be allowed by it |
| **External engines' shell** `proxy.go`, `provider.go` | one child process per request | run, decode | the response is whole, or it is an error |
| **Assertions** `api/assert.go`, `matrix.go` | results by place | group by probe, evaluate each group, merge | an assertion's result does not depend on its neighbours |
| **Diff** `api/diff.go` | none | compare two responses | shows what became reachable, and what no longer is |
| **Pull-request gate** `hacks/telepathy-ci.sh`, `action.yml` | flag, exit status, worktree, the sticky comment | test, diff, post | green only if it should be |
| **Case lifecycle** `e2e/e2e_test.go`, `hep.go`, `cluster.go` | what is on the cluster; createdNS, applied manifests, cleanups | repair, reap, gate, pre-clean, apply, probe, tear down | no case is influenced by an earlier one; no host is cut off |
| **Probing** `e2e/probe.go`, the fan-out of `runCase` | attempts, rows, the pool's tokens | try, retry, settle, write, score | a row is its assertion's; a settled network is reported as it is |
| **CLI, loading, realisation, reports, provisioning** | none that outlives a call | | |

How they interact: a command of the CLI loads a `Request` and makes one call of the provider it
names. The engines run as children: a request goes to standard input and a response comes from
standard output. `telepathy test` may call the provider several times, once per probe that the
assertions ask for, and `telepathy diff` compares two finished responses. The script calls the CLI
(through a pipe and under `set -e`), git and the GitHub API. The harness calls `Evaluate` in process
for the prediction, and otherwise talks to one cluster that all cases share and that outlives the
test process.

The behaviour that is hard here:

- *Shortcuts*: three ways to fill one matrix, a memo per class, an index per probe, an answer
  without a lookup. A missing ingredient of a key is silent and shows only for the right
  combination of policy, peer and owner.
- *One graph, many readers*: the matrix, the programs, the chains, the tier view and the advice each
  build or read the graph in their own way.
- *Streaming*: while the matrix is streamed only the columns later phases read stay in memory, and
  a failed write is noticed at the flush only.
- *Failure and crash*: the harness leaves real policies on a real cluster; calls fail after they
  had an effect, the test process is killed, the order of attach and detach decides whether a node
  survives. A child process stops at any step.
- *Overlap*: two pushes, two jobs, one comment; a pool of probes while the policies they probe are
  still being programmed.
- *Evaluation order*: results of groups go back by index; tiers pass to tiers behind them.

`PROJECT.json` lists each hazard at its line with the properties that would notice.

## 2 Modules

| Module | Models | Notes |
|---|---|---|
| `Checker` | what a policy walk decides (Felix's checker, external) | tiers, passes, end of tier, profiles; peers are conjunctions of IP-set probes |
| `Collapse` | `collapse.go` | probes, signatures, fingerprints, `ClassVerdict` |
| `MatrixSpec` | abstract: what any engine promises | a request is taken, verdicts appear, a response contains exactly what was asked or an error |
| `Evaluate` | the Calico sweep | one action per phase, one step per cell; `EvalFlow` is the whole of `evalFlow` with HostEndpoint overlays |
| `Feed` | `resources.go`, `feed.go`, `icmp.go`, `graph.go` | from documents to the graph: order and replacement of documents, inferred types, staged kinds, labels, sets, slices, the ICMP filter |
| `Renderers` | `bpf.go`, `iptables.go`, `tiermatch.go` | what is read off the same graph |
| `Hygiene` | the "unreachable" and "duplicate" findings of `cost.go` | off the documents alone |
| `Pipeline` | composes `Feed`, `Evaluate`, `Renderers`, `Hygiene` | `Side` is the reference: what the documents say of one flow, read without a graph |
| `AntreaRules`, `CiliumRules` | the engines' rules, indices and their plain reading | Antrea's plain reading is Kubernetes NetworkPolicy, which the engine documents that it implements |
| `EngineSweep` | both engines' mains and harnesses, and the shell that runs them (`proxy.go`) | load, index, sweep, decode; the child may fail at any step |
| `Report` | assertions, streamed matrices, diff | pure |
| `CiGate` | jobs of `telepathy-ci.sh` with `runTest`, `runDiff`, `RunAssertions` | one step per command; commands fail; jobs overlap; the base moves |
| `HnsRender` | tier flattening, `combineRules`, priorities, the linter | one step per rule that is flattened; reference: `Linux`, a packet walked through the tiers |
| `CaseLifecycle` | `runCase`, `ensureClusterHealthy`, repairs, teardown | one action per call that may fail |
| `ProbePool` | `probe.go`, the fan-out of `runCase` and its scoring | one action per step of a worker; Felix programs policies meanwhile |
| `Lists` | what several loops leave of a list | `Kept`: the elements at some positions, in their order; for `Feed`, `Hygiene`, `CiGate`, `HnsRender` |
| `ListProofs`, `EvaluateProofs`, `PipelineProofs`, `EngineProofs`, `CiGateProofs`, `HnsProofs`, `CaseLifecycleProofs`, `ProbePoolProofs` | theorems | section 4 |
| `MC*` | small instances | section 3 |

`Evaluate` and `EngineSweep` both implement `MatrixSpec` by a refinement mapping
(`ImplementsMatrixSpec` in each). `Evaluate` extends `Collapse`, which extends `Checker`; `Pipeline`
makes the requests that `Evaluate` sweeps out of documents. `CiGate` extends `Report` and takes
responses as given: what a response contains is the business of the modules before it.
`CaseLifecycle` has one step `probe`, of which `ProbePool` is the inside.

Correspondence of state. *Evaluate*: `actors` is the `actorBundle`, `sink` the `matrixSink`
(`m` its map, `file` the lines that reached the writer, `broken` bufio's latched error), `at` the
indices of the loop that runs, `resp` the `Response`; `truth` is a history variable that no action
reads. *Feed*: a request's `store` is the graph's policies, profiles and IP sets, its `ep` the
tiers that Felix resolved for each endpoint; a document is a record, its text what the converters
make of it. *EngineSweep*: the loaded policies, the index and the matrix of one process, and
`answer`, what the process that waits for it returns. *CiGate*: a
variable that is a function of the job is a variable of that job's script (`pc` the command it is
at, `fail` the flag `fail`, `exit` the exit status) or of the telepathy process it runs (`todo`,
`results`, `errors`); `comments` is the pull request. *CaseLifecycle*: `ns` to `stale` are the
cluster, `pc` to `failed` the test process, `applied` the manifests `recordApplied` lists,
`cleanups` what `t.Cleanup` was given, `owned` is `createdNS`. *HnsRender*: the list that is
being flattened, rule by rule from the front of a tier, and what of it is behind the rule at hand; `exact`
records whether every combination so far was the conjunction of its two rules. *ProbePool*:
`at[i]` is where the goroutine of assertion `i` stands, `sem` and `wg` the semaphore and the wait
group, `open[i]` whether the dataplane lets the flow through at this moment, `met[i]` a
history of what its attempts met.

A definition whose comment begins with `Variant:` is the neighbour's plausible bug. No behaviour
uses it; `PROJECT.json` "mutants" says which property notices it.

## 3 What the runs check

Six runs pass. Each of the other six shows one statement of the repository that the code does
not keep (section 6).

| Run | Instance | Properties |
|---|---|---|
| `evaluate` | given graphs: four endpoints (one external), no or one HostEndpoint with each hook, five bodies of rules, an IP set with four memberships, four tier layouts, two Services, pairs with repeats and unknown names, streamed or not, a writer that may fail at any write. Documents: ten topics of two to four documents that bear on each other, in every order, under up to five ICMP probes, staged or not, with typed objects of the same names, unreadable documents, explicit slices | `MemoSound`: the memo answers for each member of a class what its own walk would. `OneLinePerPair`: no cell is streamed twice. `InternetPosture`: the actor report counts what the matrix says although columns were not kept. `MatrixAsWritten`: the matrix is what the documents say, read without a graph. `ProgramsAgree`: so is what the eBPF program does with the packet. `ChainsClosed`: no rendered chain jumps to one that is not. `AdviceIsSafe`: without the rules the cost report calls dead weight no verdict changes. `ImplementsMatrixSpec`: the response is what `EvalFlow` says of every pair asked, or an error. `Terminates` |
| `engines` | 700 requests: every pair of six NetworkPolicy rules (ports, ranges, named ports that are another number on each pod, blocks with exceptions, selectors), triples of four sets of Cilium entries, refused and replaced manifests, a load that panics, ports beyond 16 bits, index on and off; the engine may stop at any step | `IndexExact`: for any two endpoints the index answers what the loaded policies say. `ImplementsMatrixSpec`. `AnsweredWhole`: whoever asks is answered, with every verdict or with an error and none |
| `ci_gate` | two jobs, three revisions (one with an engine that answers nothing), 15 workflows over all modes and files (empty, passing, mixed probes, typos), one failing command | `ResultsExact`, `OutcomeExact`, `DiffExact`: results, exit status and comment are those of the two revisions compared. `ErrorsSurfacedOnce`: an engine's error is reported once however many probes met it. `StickyWhenSerial`: jobs that follow each other share one comment. `FileRouteAgrees`: a streamed matrix that is read back gives the same results. `JobEnds` |
| `lifecycle` | a host-firewall case, a case with a tier, a set and a system namespace it names like its own, an off-cluster client; three cases in a row, two failing calls, one kill, `E2E_KEEP` on and off | `HepNeverStranded`: no HostEndpoint is on a live node without its allow rules. `CleanSlate`, `ProbedAsPredicted`: when a case is probed the cluster holds what the engine was asked about and nothing else. `ProtectedKept`: no namespace of the system is deleted. `GreenCaseGone`: a case that passed leaves nothing. `CaseEnds` |
| `hns` | 12,881 endpoints with up to three tiers (before, in and behind the default tier) of up to two rules each, negated and unsupported matches among them; 96 packets | `FaithfulOrWarned`: every packet is decided as the tiers decide it, unless the linter has said why not or ports were combined into more than both. `OrderKept`: priorities keep the order of unlike rules when they run out. `Terminates` |
| `probe_pool` | a fan-out over a pool of two with a disagreement and a quarantined row, a HostEndpoint case, an observer case, clients that are missing or on the internet; Felix programs any flow at any time; up to three packets lost, execs stalled or pods gone | `RowsSound`: row *i* is assertion *i*'s, allow only if an attempt got through, deny only if none did. `SettledReported`: what was programmed before the first attempt is reported as it is although packets are lost. `PoolBounded`, `OneFlowAtATime`. `GreenMeansAgreed`: a green case has a verdict of the cluster for each row, and the engine's. `AllProbesEnd` |
| `yaml_heps` (violated) | HostEndpoints fed as manifests | `YamlHepsAreActors` |
| `explicit_slices` (violated) | requests with explicit EndpointSlices | `SlicesResolve` |
| `tier_view` (violated) | requests with a pasted ServiceAccount | `TierViewIsTheGraph` |
| `pool_lingers` (violated) | one kill, no failing call | `PoolNeverLingers` |
| `hep_list` (violated) | the listing of HostEndpoints may fail | `HepNeverStranded` |
| `hns_ports` (violated) | as `hns` | `CombinedIsBoth` |

Each passing run has one type invariant (`TypeOK`) besides.

What the passing runs leave out is in the properties themselves or here. `lifecycle` lets the calls
`crd`, `delete`, `apply`, `health` and `engine` fail, and neither the listing of HostEndpoints nor the
reaper's deletes, and has no case with cluster-wide policies of the Kubernetes kinds: section 6 says
what happens then. `StickyWhenSerial` speaks of jobs that do not overlap and
listings that work: with overlapping jobs two comments are the script's normal outcome.
`MatrixAsWritten` and `ProgramsAgree` read an explicit slice as the code feeds it, without ports
(`explicit_slices` shows what that costs); `ProgramsAgree` leaves aside a probe of
which only the type is known, where a rule about a code cannot be answered. `FaithfulOrWarned`
leaves aside what `hns_ports` shows.

## 4 What is proved

All theorems are for every value of the constants, under the named assumptions of the modules
(which TLC evaluates in every run).

**Collapse is exact** (`EvaluateProofs`). `SameWalk`: if the answers of two flows to the probes an
owner's own rules make agree, the walk of the owner's policies ends alike, for every store,
owner and direction; by layers (a peer match, a rule, a list, a tier, the tiers, the profiles),
each citing the one below. `CollapseExact` follows: the verdict of a class pair is the verdict of each
of its members. This is the argument the comment at the head of `collapse.go` makes in words.

**Rules that may be left out** (`EvaluateProofs`). The matrix comes from a graph without the rules that contradict
the ICMP probe, the eBPF program from all rules with the probe's type and code in the packet: `FilterIsMatch` says
that both lists decide every flow alike. `DeadRulesAreDead`: so do a policy and the policy without the rules the cost
report calls unreachable or duplicate. Both say that the first answer of a list survives the removal of elements
that do not answer, or are answered for by an earlier one (`KeptAnswers`, from the lemmas of `ListProofs` about `Kept`).

**The sweep** (`EvaluateProofs`). `SweepTypeOK`, and `SweepMemoSound`: every memo a matrix is expanded from is sound.
`TypeOK` is not inductive: that the next cell is a name and has a record depends on how `actors`
was built, and that the memo has an entry depends on how `classes` was. The invariant is
`IInv == TypeOK /\ Shape /\ ActorsBuilt /\ ClassesGrouped /\ MemoFilled`; the last conjunct becomes
soundness by `CollapseExact`.

**The sweep keeps the promise** (`EvaluateProofs`). `SweepImplementsMatrixSpec`: each phase maps to a
step of `MatrixSpec` or to a stutter. The invariant `FillInv` adds to `IInv` what each loop has
written so far: the cells before its position, with the verdicts `EvalFlow` gives, in the matrix, or
on the lines if it is streamed; for classes the verdict comes through `SweepMemoSound`.
`SweepOneLine` and `SweepInternetPosture` are read off the same invariant.

**What the documents say** (`PipelineProofs`). For requests made of documents, however many and in whatever order:
`SweepMatrixAsWritten` (each reported verdict is the one read off the documents), `SweepProgramsAgree` (the rule
programs of a pair allow it exactly then) and `SweepChainsClosed` (what a tier jumps to is rendered). The assumption is
`DocumentsAssumption`: requests are what `Fed` makes of documents that are `Written`, that is, ids and addresses of
endpoints are their own, orders tell the policies of a tier and the tiers apart, a policy whose kind
has no default for its types names them, documents have the fields of their kind, and a Tier, being for the
whole cluster, names no namespace. The argument follows the data, each lemma from the one before: lists of
which later elements replace earlier ones leave the documents in force (`PoliciesSent`, `SetsSent`,
`TiersSent`); these give each endpoint the labels, and each set the members, that the documents give it; so a rule that
the graph stores applies to a flow iff the document's rule does, then the same for a policy, a tier, and the whole walk, in
that order. Each walk of a list in order is turned into "the first that answers" by its least position, since
neither side can be unfolded by induction. For the matrix `SweepImplementsMatrixSpec` joins the walk to what is
reported; for the programs, a tier whose policies are all staged compiles to nothing and is one that
governs nobody among the enforced policies.

**Advice** (`PipelineProofs`). `SweepAdviceIsSafe`: whatever documents are sent, the matrix is what it would be without
the rules that the cost report calls unreachable or duplicate, all of them at once. The two graphs are not alike (a
set that only a dead rule names is not made), so they are not compared; both are compared with the documents. The trimmed
documents are `Written` too (`AdvisedWritten`); each policy in force corresponds to one that governs the same
endpoints and, by `DeadRulesAreDead`, says the same (`Corresponds`); so each side of each flow reads alike (`SideAlike`), and
requests that read alike have the same truth (`TruthAlike`, from the lemmas of `SweepMatrixAsWritten`).

**What counts of the documents** (`PipelineProofs`). Three theorems about any two requests, by the same road.
`OnlyWhatCounts`: the matrix is a function of the typed objects, the endpoints, the probe and, of the documents, of the set of those that
can be read, are of a kind that is looked at, are not skipped as staged, and are the last of their key
(`Counted`; Services count each). So documents that are not among these may be left out (`IdleDocuments`), and documents
no two of which have one key may come in any order (`OrderOfDocuments`): the feed goes over the documents
several times, replaces by key and sorts by order, and a test tries some orders only.
`SweepTierView`: the tier view is the graph's in every request where the pasted ServiceAccounts give no endpoint labels
that typed ones do not (`AccountsTyped`). That is the reach of finding 3 of section 6: nothing but accounts tells the two apart.

**The engines** (`EngineProofs`). `EngineTypeOK` and `EngineIndexExact`, over an invariant that
says how index and policies were made. Two lemmas about the algorithms carry it:
`AntreaIndexExact` (rules that are set aside for a probe because a named port, or isolation, needs
the other end keep what they decide) and `CiliumSkipSound` (no deny, no default deny, no entry for
the port: then `LookupFlow` allows). `EngineImplementsMatrixSpec` adds `Answered`, which says that every pair
no longer in `left` has its verdict in the matrix. `AntreaIsKubernetes`: the resolved policies decide a pair
as the manifests do; this takes that ids and pod keys are unique (`EndpointsAssumption`) and that
manifests have the fields of their kind (`ManifestsAssumption`). `EngineAnsweredWhole`: an answer that
was given is whole or an error, the part of `AnsweredWhole` that is not liveness.

**The gate** (`CiGateProofs`). `GateResultsExact` by the invariant `Judged`, which gives each
result at each time. `GateDiffExact` and `GateOutcomeExact` by `GateInv`, which adds, per job,
`Staged` (what each command of the diff can rely on: the base is fetched, the two answers are of
the two revisions) and `Honest` (what the flag says at each command). `OutcomeExact` itself says
nothing before the exit, so it is not inductive; `Honest` says why a flag that is not up means the
assertions hold. A job's own step and another job's step are separate lemmas, the latter all alike
(`KeptWhenOwnKept`). `KindsExact`: the four kinds of change between any two matrices make up exactly
the difference of what they allow. `GateTypeOK` and `GateFileRouteAgrees` from the same invariant;
`GateStickyWhenSerial` from `Serial`, what the comments are while one job runs at a time.
`GateErrorsSurfacedOnce` from `Surfaced`, which says of the errors collected so far that they are those of the probes
tried, each once (`DeduplicatedOnce`).

**Cases** (`CaseLifecycleProofs`). `CaseTypeOK` and `CaseProtectedKept` without further
assumption; `CaseHepNeverStranded` if listings of HostEndpoints are answered; `CaseProbedAsPredicted` and
`CaseGreenGone` if the reaper's deletes are, too (`Answers`); `CaseCleanSlate` if, besides, cases keep apart
(`KeptApart`: no cluster-wide Kubernetes kinds, and namespaced policies only in namespaces of the
case that are not the system's). The invariant has to say, for every `pc`, which HostEndpoints can
be there (`NoHeps`, `OwnHeps`), that their rules are (`AllowRules`), that a repair that was answered leaves
none, and that what is on the cluster is in a manifest recorded for teardown (`Recorded`). The
number of cases, failures and kills does not matter.

**HNS** (`HnsProofs`). `HnsTypeOK`; `HnsOrderKept`, from how priorities count changes of action; and
`HnsFaithful`, `Spec => []FaithfulOrWarned`, for any number of tiers, rules and packets. The invariant
`Sound` has a part for each phase: the tiers gathered so far decide as Linux does (`Gathered`), the
profiles resolve what passes (`Resolved`), and inside the loop the rules already made, then the rest of the first tier
into the second, then the remaining tiers, decide each packet as at the start (`Loop`). One lemma says what combining
a passing rule with each rule of the next tier does to one packet (here `exact` is needed). That the
first hit is unique in an order, and induction over the length of a list, come from a least element of a set of
naturals (`LeastIs`, in `ListProofs` with what else `Kept` needs).
`HnsFaithfulPorts` says where the finding about `combinePorts` (`hns_ports`) cannot bite. Two lists of ports are combined into both
iff they meet, and not at the last port (`PortsKeptIs`). So `exact` holds throughout, and HNS is as Linux, for every endpoint of
which, for local and for remote ports, the rules that pass list none, or all lists have a port in common
and leave out the last. The condition is about what the user wrote; the invariant `AgreeInv` carries it over to the rules the
renderer makes, since each stems from one or two rules there were (`Stems`).

**Probing** (`ProbePoolProofs`). `TypeCorrect`, `RowsBelong`, `SettledIsReported`, `PoolIsBounded`,
`SerialCases`, `GreenMeansProbed`, for any assertions, pool size and number of faults. The invariant has four parts: what
a worker's place says about its attempts (`Knows`), what a row says about its worker (`RowIs`), which
workers hold a token (`Pool`), and what the score says about the rows counted so far (`Verdict`).
Of `AllProbesEnd` all is proved but the fairness. `ProbesNeverStuck`: until the case is done, the loop or some probe can go on,
because who holds a place or is waited for has still to give it back (`Tokens`); it spells out the guards, since
`ENABLED` is out of reach. `ProbesAdvance`: each step of the harness takes the case or one probe on by one of at most
`2 * Attempts + 5` stages, and no step, the cluster's included, takes one back. Together: however the cluster behaves,
a harness that keeps taking steps can take only so many, and stops only when the case is done.

**Only model-checked.** Liveness: `Terminates` (of the sweep and of HNS), `CaseEnds`, `JobEnds`, `AllProbesEnd` and that part
of `AnsweredWhole`. It needs fairness and `ENABLED`, which are out of the prover's reach. Every safety
invariant and action property of a passing run is proved.

## 5 Assumptions: bounds, fairness, libraries

*Bounds.* `MaxFaults` calls or commands fail, `MaxCrashes` kills, `MaxCases` cases in a row. Three
cases are enough for the state of one to reach the next but one across a case that does not
look for it (the leftover pool); two failing calls for a failure and a failure of its repair; one
kill leaves every intermediate state of the cluster to a fresh process. Two jobs overlap in every
way two can; the proof is for any number. For `hns`, ports are 0..3 with `MaxPort` for 65535 (what
`combinePorts` does at the end of the range is the same), and priorities are 10..15 so that they run out. The sweeps have four endpoints, as many as it takes for a class
with two members on either side and an actor of each kind. Addresses and IP sets are small sets
of numbers, ports and protocols those that rules tell apart. Documents come in topics of up to four, since an order
matters only between those that refer to each other. `ProbePool` has four assertions at most: a pool of two with one
waiting, and a row whose probe ends first although it began last; three faults are one fewer than the attempts of a
probe, so that losses alone never make a deny.

*Fairness.* `Evaluate` and `HnsRender` are loops of one goroutine that wait for
nobody: weak fairness of their next step. `EngineSweep` is a loop in the engine (which waits once, for its
own selector cache, before it sweeps) and a shell that waits for it: weak fairness of `Works`; that the
engine fails is never forced. The shell sets no time limit, so that an engine that hangs hangs it: the engine's own
progress is assumed. `CaseLifecycle`: weak fairness of the harness's progress. Every
call of kubectl and docker carries a timeout, and one that expires is one that failed.
Nothing makes a case begin, or a process be killed. `CiGate`: weak fairness of each job's commands,
since a command of a job returns; pushes and failures are not forced. `ProbePool`: weak fairness of the
workers together, since Go runs what can run, pauses end and `ProbeExecTimeout` bounds every exec; of
the cluster nothing is assumed, not even that policies are ever programmed.

*Libraries.* Felix's checker is modelled from how the provider calls it (`Checker`, marked
external), and so is its calculation graph: half of the requests are given as what it makes of policies, HostEndpoints
included, for the other half `Feed` says what becomes of documents. Kubernetes policies are those that libcalico has
converted.
Cilium's `LookupFlow` is the plain reading of the entries, and its distillery of rules an
input. TLC's `CHECK_DEADLOCK FALSE` is set where a system stops: a sweep ends,
`MaxCases` cases were run, all pushes have ended. `probe_pool` has it on: everyone waiting for a token or a
lock is what it looks for.

## 6 Where code and text disagree

Shown by a run (each a counterexample of a few steps; `PROJECT.json` "findings" quotes the lines):

1. `provider/calico/feed.go:147`: a HostEndpoint among the policies does not become a row or column
   (`yaml_heps`).
2. `provider/calico/resources.go:65`: explicit EndpointSlices are fed without ports, so that a rule about
   their Service matches nobody (`explicit_slices`).
3. `provider/calico/tiermatch.go:76`: the tier view builds its graph from the request as it came, the
   others merge pasted accounts and Services first (`tier_view`).
4. `e2e/hep.go:179`: a run killed between pool and HostEndpoints leaves the pool (`pool_lingers`).
5. `e2e/hep.go:145`: if HostEndpoints cannot be listed, policies go before them (`hep_list`).
6. `provider/calico/hns.go:506`: `combinePorts` asks the length of the bit set instead of its count;
   ports with nothing in common become any port (`hns_ports`). `hns` passes because
   `FaithfulOrWarned` leaves such combinations aside.

Met while reading, without a run:

- `e2e/e2e_test.go:443`: a case does not start from a clean slate after a kill if the earlier case
  had cluster-wide Kubernetes policies or policies in a protected namespace (hence `KeptApart`).
- `hacks/telepathy-ci.sh:122`: a failed listing of comments makes a second sticky comment.
- `e2e/probe.go:83` says that a source that is gone is an error; if the pod vanishes between the
  look-up and the exec, the attempt fails and the row says deny.
- `provider/calico/eval.go:638` "falls back" if an endpoint's IP is malformed; `MustParseCIDR` panics on it.
- `provider/calico/iptables.go:179` says that orphan policies are still shown without a filter; Felix sends only
  policies that select something. Its key for a policy has no kind, so two of one name are shown together.
- Slices that are made up use the port of a Service, not its target port.
- `lintWindowsHNS` looks at policies only: a rule of a profile that is dropped is not warned of.
- `e2e/README.md:125` says that failsafes are restored and conntrack flushed even on failure; the
  code does not restore failsafes, and skips the flush if deleting HostEndpoints fails.
- `e2e/cluster.go` says of `protectedNamespaces` that pre-clean and teardown skip them; the teardown
  deletes what `ensureNamespace` created, also a protected namespace that was absent.
- The comment at `engines/antrea/harness.go:270` says an external is in no namespace; one that gives
  a namespace, or whose id has a slash, is, and selectors match it.
- `api/types.go` documents `Unpoliced` for all providers; Antrea and Cilium do not read it.
- Antrea compares the request's protocol with regard to case.

## 7 What is not modelled

- Felix inside: the conversion of Kubernetes policies by libcalico, the rendering of a rule, the
  compilation of a program to instructions. IPv6, named ports of the Calico provider and rules by source Service.
- The tier view of HostEndpoints and its counts of ends of tiers, which repeat `evalFlow`.
- The linter's findings except those that `FaithfulOrWarned` needs: they are wording and change no verdict.
- `cost.go` except two findings: the rest is counters and weights. `e2e/cost.go` measures and reports.
- CLI flags, formats, loading, realisation, diagnostics, provisioning: text in, text out, or one call
  after the other. Of the registry: a table that `init` functions fill and nothing changes later.
- In the harness: pods and their addresses, where a HostEndpoint is placed, and the gates that skip a
  case before it touches the cluster. A delete that timed out and took effect later is a failed delete
  with its effect.
- In the script: git's worktree registry (an aborted job's worktree on a runner that is kept), step
  outputs, and what overlapping jobs do to the comment beyond one each.

## 8 Plan

Done: the sweep with its collapse, refinement and feed; the renderers, tier view and advice off the
same graph; both engines and the shell around them; assertions, diff and the pull-request gate; HNS; the
life of cases and the pool of probes; theorems for each.

Left, in order of what it would add:

1. Proofs: what an endpoint or a document more changes (a policy that selects neither end changes no cell of the pair); for the
   gate and the cases, progress without fairness as for the probes.
2. The output file of the `evaluate` command, half written when the process dies.
3. Named ports and IPv6 in `Feed`.
