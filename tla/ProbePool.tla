----------------------------- MODULE ProbePool -----------------------------
(***************************************************************************)
(* Phase 6 of an end-to-end case (e2e/e2e_test.go runCase, e2e/probe.go,   *)
(* e2e/report.go): every assertion is probed on the cluster, several at a  *)
(* time, each with retries, while Felix is still programming the policies; *)
(* the rows are then compared with the engine's verdicts.                  *)
(*                                                                         *)
(* An assertion is a record                                                *)
(*   from   : "pod", "external" (an observer container), "internet" (a     *)
(*            real address) or "missing" (no pod was realised)             *)
(*   to     : "pod", "nodeport" (a Service with a NodePort) or "missing"   *)
(*   proto  : "l4" (tcp, udp, sctp), "icmp" or "other"                     *)
(*   quarantined, engine (the engine's verdict), policy (the verdict of    *)
(*   the policies once Felix has programmed them)                          *)
(* and a case is [flows, external, hep]: its assertions in order, whether  *)
(* meta.yaml sets externalProbe, whether it has HostEndpoints.             *)
(***************************************************************************)
EXTENDS Integers, Sequences, FiniteSets

CONSTANTS
  Cases,
  Concurrencies,  \* the values of E2E_PROBE_CONCURRENCY
  Faults,         \* of "loss" (a packet of an open flow), "stall" (an exec channel) and
                  \* "vanish" (a source pod), those that happen
  MaxFaults

Verdicts == {"allow", "deny"}
Assertion ==
  [from : {"pod", "external", "internet", "missing"}, to : {"pod", "nodeport", "missing"},
   proto : {"l4", "icmp", "other"}, quarantined : BOOLEAN,
   engine : Verdicts, policy : Verdicts]

ASSUME CasesAssumption ==
  \A c \in Cases : c.flows \in Seq(Assertion) /\ c.external \in BOOLEAN /\ c.hep \in BOOLEAN
ASSUME BoundsAssumption ==
  /\ Concurrencies \subseteq Int
  /\ Faults \subseteq {"loss", "stall", "vanish"}
  /\ MaxFaults \in Nat

VARIABLES
  case, conc,     \* the case and cfg.ProbeConcurrency
  pc,             \* where runCase is: "launch", "report", "done"
  next,           \* the assertion the loop launches next
  at,             \* where the probe of an assertion is
  tries,          \* the attempts it has begun
  outcome,        \* what it will write into its row
  rows,
  sem, wg,        \* who holds a place of the semaphore; whom wg.Wait waits for
  failed,         \* t.Failed()
  open,           \* the network carries the flow now
  gone,           \* assertions whose source pod has vanished
  faults,         \* how many there were
  met,            \* history: what the attempts of an assertion met
  early           \* history: assertions first tried before their policies arrived

probing == <<at, tries, outcome, rows, sem, wg>>
world   == <<open, gone>>
history == <<faults, met, early>>
vars    == <<case, conc, pc, next, probing, failed, world, history>>

Attempts_Three == 3   \* Variant: one attempt less.

Attempts == 4

Flows      == case.flows
Assertions == 1 .. Len(Flows)
Opens(a)   == a.policy = "allow"
Blank      == [of |-> 0, outcome |-> "blank"]

\* Variant: HostEndpoints no longer make a case serial.
Workers_NoHep == IF case.external \/ conc < 1 THEN 1 ELSE conc

\* HostEndpoint and observer cases probe one flow at a time.
Workers == IF case.external \/ case.hep \/ conc < 1 THEN 1 ELSE conc
Serial  == Workers = 1

Init ==
  /\ case \in Cases /\ conc \in Concurrencies
  /\ pc = "launch" /\ next = 1
  /\ at = [i \in Assertions |-> "unborn"]
  /\ tries = [i \in Assertions |-> 0]
  /\ outcome = [i \in Assertions |-> "blank"]
  /\ rows = [i \in Assertions |-> Blank]
  /\ sem = {} /\ wg = {} /\ failed = FALSE
  /\ open \in [Assertions -> BOOLEAN]
  /\ gone = {} /\ faults = 0
  /\ met = [i \in Assertions |-> {}] /\ early = {}
-----------------------------------------------------------------------------
(* The loop over the assertions *)

\* Variant: the goroutine starts without waiting for a place.
Launch_NoPlace ==
  /\ pc = "launch" /\ next \in Assertions
  /\ Serial => \A i \in 1 .. next - 1 : at[i] = "ended"
  /\ at' = [at EXCEPT ![next] = "ready"]
  /\ IF Serial THEN UNCHANGED <<sem, wg>> ELSE sem' = sem \cup {next} /\ wg' = wg \cup {next}
  /\ next' = next + 1
  /\ UNCHANGED <<case, conc, pc, tries, outcome, rows, failed, world, history>>

\* wg.Add, a place, go; a serial case calls probeAssertion itself.
Launch ==
  /\ pc = "launch" /\ next \in Assertions
  /\ IF Serial THEN \A i \in 1 .. next - 1 : at[i] = "ended"
               ELSE Cardinality(sem) < Workers
  /\ at' = [at EXCEPT ![next] = "ready"]
  /\ IF Serial THEN UNCHANGED <<sem, wg>> ELSE sem' = sem \cup {next} /\ wg' = wg \cup {next}
  /\ next' = next + 1
  /\ UNCHANGED <<case, conc, pc, tries, outcome, rows, failed, world, history>>

\* Variant: nobody waits for the goroutines.
Collect_Early ==
  /\ pc = "launch" /\ next \notin Assertions
  /\ Serial => \A i \in Assertions : at[i] = "ended"
  /\ pc' = "report"
  /\ UNCHANGED <<case, conc, next, probing, failed, world, history>>

\* wg.Wait; the serial loop just ends.
Collect ==
  /\ pc = "launch" /\ next \notin Assertions
  /\ IF Serial THEN \A i \in Assertions : at[i] = "ended" ELSE wg = {}
  /\ pc' = "report"
  /\ UNCHANGED <<case, conc, next, probing, failed, world, history>>

\* caseReport.add and mismatches: probe errors and disagreements are fatal.
\* The blank row of a probe that wrote none has no verdict on either side.
Fatal(row) ==
  /\ row.of # 0
  /\ \/ row.outcome = "error"
     \/ row.outcome \in Verdicts /\ row.outcome # Flows[row.of].engine

Report ==
  /\ pc = "report"
  /\ failed' = \E i \in Assertions : Fatal(rows[i])
  /\ pc' = "done"
  /\ UNCHANGED <<case, conc, next, probing, world, history>>
-----------------------------------------------------------------------------
(* One probe *)

Settle(i, verdict) ==
  /\ outcome' = [outcome EXCEPT ![i] = verdict]
  /\ at' = [at EXCEPT ![i] = "settled"]
  /\ UNCHANGED tries

\* Nothing to dial from, or nothing to dial.
Unresolved(a) == a.from \in {"internet", "missing"} \/ a.to = "missing"

\* probeOnce knows no such probe.
Unsupported(a) == a.proto = "other" \/ (a.proto = "icmp" /\ a.from = "external")

Begin(i) ==
  /\ at[i] = "ready"
  /\ LET a == Flows[i] IN
       \/ a.quarantined /\ Settle(i, "quarantined") /\ UNCHANGED early
       \/ ~a.quarantined /\ (Unresolved(a) \/ Unsupported(a)) /\ Settle(i, "error")
          /\ UNCHANGED early
       \/ /\ ~(a.quarantined \/ Unresolved(a) \/ Unsupported(a))
          /\ at' = [at EXCEPT ![i] = "exec"]
          /\ tries' = [tries EXCEPT ![i] = 1]
          /\ early' = IF open[i] = Opens(a) THEN early ELSE early \cup {i}
          /\ UNCHANGED outcome
  /\ UNCHANGED <<case, conc, pc, next, rows, sem, wg, failed, world, faults, met>>

\* Variant: the last attempt is told by one too many.
Unreached_OneMore(i) ==
  IF tries[i] > Attempts
  THEN Settle(i, "deny")
  ELSE at' = [at EXCEPT ![i] = "pause"] /\ UNCHANGED <<tries, outcome>>

\* A failed attempt: a pause before the next, deny after the last.
Unreached(i) ==
  IF tries[i] = Attempts
  THEN Settle(i, "deny")
  ELSE at' = [at EXCEPT ![i] = "pause"] /\ UNCHANGED <<tries, outcome>>

Fault(f) == f \in Faults /\ faults < MaxFaults /\ faults' = faults + 1

\* One exec: connected, not connected (refused, dropped, or no pod to exec in), or
\* cut off by ProbeExecTimeout.
Attempt(i) ==
  /\ at[i] = "exec"
  /\ \/ /\ open[i] /\ i \notin gone
        /\ Settle(i, "allow")
        /\ met' = [met EXCEPT ![i] = @ \cup {"open"}]
        /\ UNCHANGED faults
     \/ /\ open[i] /\ i \notin gone
        /\ Fault("loss")
        /\ Unreached(i)
        /\ met' = [met EXCEPT ![i] = @ \cup {"loss"}]
     \/ /\ ~open[i] \/ i \in gone
        /\ Unreached(i)
        /\ met' = [met EXCEPT ![i] = @ \cup {IF i \in gone THEN "nopod" ELSE "shut"}]
        /\ UNCHANGED faults
     \/ /\ Fault("stall")
        /\ Settle(i, "error")
        /\ met' = [met EXCEPT ![i] = @ \cup {"stall"}]
  /\ UNCHANGED <<case, conc, pc, next, rows, sem, wg, failed, world, early>>

Again(i) ==
  /\ at[i] = "pause"
  /\ at' = [at EXCEPT ![i] = "exec"]
  /\ tries' = [tries EXCEPT ![i] = @ + 1]
  /\ UNCHANGED <<case, conc, pc, next, outcome, rows, sem, wg, failed, world, history>>

\* Variant: the row goes where the loop is by now.
Write_LoopIndex(i) ==
  /\ at[i] = "settled"
  /\ rows' = [rows EXCEPT ![next - 1] = [of |-> i, outcome |-> outcome[i]]]
  /\ at' = [at EXCEPT ![i] = IF Serial THEN "ended" ELSE "written"]
  /\ UNCHANGED <<case, conc, pc, next, tries, outcome, sem, wg, failed, world, history>>

\* rows[i] = the row probeAssertion returned.
Write(i) ==
  /\ at[i] = "settled"
  /\ rows' = [rows EXCEPT ![i] = [of |-> i, outcome |-> outcome[i]]]
  /\ at' = [at EXCEPT ![i] = IF Serial THEN "ended" ELSE "written"]
  /\ UNCHANGED <<case, conc, pc, next, tries, outcome, sem, wg, failed, world, history>>

\* Variant: a probe that failed keeps its place.
Release_OnVerdict(i) ==
  /\ at[i] = "written"
  /\ sem' = IF outcome[i] = "error" THEN sem ELSE sem \ {i}
  /\ at' = [at EXCEPT ![i] = "released"]
  /\ UNCHANGED <<case, conc, pc, next, tries, outcome, rows, wg, failed, world, history>>

\* The deferred calls run last to first: the place is given back, then wg.Done.
Release(i) ==
  /\ at[i] = "written"
  /\ sem' = sem \ {i}
  /\ at' = [at EXCEPT ![i] = "released"]
  /\ UNCHANGED <<case, conc, pc, next, tries, outcome, rows, wg, failed, world, history>>

Done(i) ==
  /\ at[i] = "released"
  /\ wg' = wg \ {i}
  /\ at' = [at EXCEPT ![i] = "ended"]
  /\ UNCHANGED <<case, conc, pc, next, tries, outcome, rows, sem, failed, world, history>>
-----------------------------------------------------------------------------
(* The cluster, meanwhile *)

\* After the last attempt of a probe no step looks at its flow or its pod again.
Watched(i) == at[i] \in {"unborn", "ready", "exec", "pause"} /\ ~Flows[i].quarantined

\* Felix programs what the policies say of a flow.
Converge(i) ==
  /\ Watched(i)
  /\ open[i] # Opens(Flows[i])
  /\ open' = [open EXCEPT ![i] = ~@]
  /\ UNCHANGED <<case, conc, pc, next, probing, failed, gone, history>>

Vanish(i) ==
  /\ Watched(i)
  /\ Flows[i].from = "pod" /\ i \notin gone
  /\ Fault("vanish")
  /\ gone' = gone \cup {i}
  /\ UNCHANGED <<case, conc, pc, next, probing, failed, open, met, early>>

Finished == pc = "done" /\ UNCHANGED vars

Probe(i) == Begin(i) \/ Attempt(i) \/ Again(i) \/ Write(i) \/ Release(i) \/ Done(i)
Work     == Launch \/ Collect \/ Report \/ \E i \in Assertions : Probe(i)
Cluster  == \E i \in Assertions : Converge(i) \/ Vanish(i)
Next     == Work \/ Cluster \/ Finished

\* Goroutines that can run are run, pauses end and ProbeExecTimeout bounds every exec;
\* nothing is assumed of the cluster.
Spec == Init /\ [][Next]_vars /\ WF_vars(Work)
-----------------------------------------------------------------------------
(* Properties *)

\* TypeOK: the variables have their types; no probe begins more than Attempts attempts.
TypeOK ==
  /\ case \in Cases /\ conc \in Concurrencies
  /\ pc \in {"launch", "report", "done"}
  /\ next \in 1 .. Len(Flows) + 1
  /\ at \in [Assertions -> {"unborn", "ready", "exec", "pause", "settled", "written",
                            "released", "ended"}]
  /\ tries \in [Assertions -> 0 .. Attempts]
  /\ outcome \in [Assertions -> Verdicts \cup {"blank", "error", "quarantined"}]
  /\ \A i \in Assertions : rows[i].of \in 0 .. Len(Flows)
  /\ sem \subseteq Assertions /\ wg \subseteq Assertions /\ gone \subseteq Assertions
  /\ failed \in BOOLEAN /\ open \in [Assertions -> BOOLEAN]

Written(i) == rows[i] # Blank
InFlight   == {i \in Assertions : at[i] \in {"ready", "exec", "pause"}}

\* RowsSound: whatever the interleaving, row i is the row of assertion i: allow only if one
\* of its own attempts got through, deny only if none did, quarantined without an attempt
\* (probeAssertion, probe and the fan-out).
RowsSound ==
  \A i \in Assertions : Written(i) =>
    /\ rows[i].of = i
    /\ rows[i].outcome = "allow" <=> "open" \in met[i]
    /\ rows[i].outcome = "deny" =>
         tries[i] = Attempts /\ met[i] \cap {"open", "stall"} = {}
    /\ rows[i].outcome = "quarantined" <=> Flows[i].quarantined

\* SettledReported: a flow first tried after Felix had programmed its policies is reported
\* as they say, although packets are lost (the retries of probe).
SettledReported ==
  \A i \in Assertions :
    Written(i) /\ rows[i].outcome \in Verdicts /\ i \notin early /\ i \notin gone =>
      rows[i].outcome = Flows[i].policy

\* PoolBounded: never more probes in flight than E2E_PROBE_CONCURRENCY, one if that is
\* not positive.
PoolBounded == Cardinality(InFlight) <= IF conc < 1 THEN 1 ELSE conc

\* OneFlowAtATime: HostEndpoint and observer cases never have two flows in flight, as their
\* conntrack flush and NodePort routing assume.
OneFlowAtATime == case.hep \/ case.external => Cardinality(InFlight) <= 1

\* GreenMeansAgreed: a case that ends without a failure has, for every assertion that is not
\* quarantined, a verdict of the cluster, and it is the engine's (rows, add, mismatches).
GreenMeansAgreed ==
  pc = "done" /\ ~failed =>
    \A i \in Assertions :
      ~Flows[i].quarantined => rows[i] = [of |-> i, outcome |-> Flows[i].engine]

\* AllProbesEnd: the case comes to its end, whatever stalls.
AllProbesEnd == <>(pc = "done")
=============================================================================
