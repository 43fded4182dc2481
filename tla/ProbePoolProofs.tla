-------------------------- MODULE ProbePoolProofs --------------------------
(***************************************************************************)
(* Theorems about ProbePool, for any cases, pool sizes and faults: rows    *)
(* belong to their assertions, the pool is bounded, nobody is stuck,       *)
(* serial cases are serial, a green case agreed with the cluster.          *)
(***************************************************************************)
EXTENDS ProbePool, FiniteSetTheorems, TLAPS

Settled   == {"settled", "written", "released", "ended"}
Recorded  == {"written", "released", "ended"}
Holding   == {"ready", "exec", "pause", "settled", "written"}

\* What the probe of one assertion knows where it is.
Knows(i) ==
  /\ at[i] \in {"unborn", "ready"} => tries[i] = 0 /\ met[i] = {}
  /\ at[i] \in {"exec", "pause"} =>
       met[i] \cap {"open", "stall"} = {} /\ ~Flows[i].quarantined
  /\ at[i] = "pause" => tries[i] < Attempts
  /\ at[i] \in Settled =>
       /\ outcome[i] \in Verdicts \cup {"error", "quarantined"}
       /\ outcome[i] = "allow" <=> "open" \in met[i]
       /\ outcome[i] = "deny" => tries[i] = Attempts /\ met[i] \cap {"open", "stall"} = {}
       /\ outcome[i] = "quarantined" <=> Flows[i].quarantined

RowIs(i) ==
  rows[i] = IF at[i] \in Recorded THEN [of |-> i, outcome |-> outcome[i]] ELSE Blank

\* What the loop, the semaphore and the wait group know of the probes.
Pool ==
  /\ \A i \in Assertions : at[i] = "unborn" <=> i >= next
  /\ Serial => \A i \in Assertions : i < next - 1 => at[i] = "ended"
  /\ ~Serial => \A i \in Assertions :
       /\ at[i] \in Holding => i \in sem
       /\ at[i] \in Holding \cup {"released"} => i \in wg
  /\ Cardinality(sem) <= Workers

Verdict ==
  /\ pc # "launch" => \A i \in Assertions : at[i] = "ended"
  /\ pc = "done" /\ ~failed => \A i \in Assertions : ~Fatal(rows[i])

IInv ==
  /\ TypeOK
  /\ rows \in [Assertions -> [of : 0 .. Len(Flows),
                              outcome : Verdicts \cup {"blank", "error", "quarantined"}]]
  /\ met \in [Assertions -> SUBSET {"open", "shut", "loss", "nopod", "stall"}]
  /\ \A i \in Assertions : Knows(i) /\ RowIs(i)
  /\ Pool
  /\ Verdict
-----------------------------------------------------------------------------
LEMMA CaseFacts ==
  ASSUME case \in Cases, conc \in Concurrencies
  PROVE  /\ Len(Flows) \in Nat
         /\ \A i \in Assertions : i \in Nat /\ i # 0 /\ Flows[i] \in Assertion
         /\ IsFiniteSet(Assertions)
         /\ Workers \in Nat /\ Workers >= 1
<1>1. Flows \in Seq(Assertion)
  BY CasesAssumption DEF Flows
<1>2. conc \in Int
  BY BoundsAssumption
<1>3. Workers \in Nat /\ Workers >= 1
  BY <1>2 DEF Workers
<1>4. IsFiniteSet(Assertions)
  BY <1>1, FS_Interval DEF Assertions
<1>. QED BY <1>1, <1>3, <1>4 DEF Assertions

LEMMA Initially == Init => IInv
<1>. SUFFICES ASSUME Init PROVE IInv
  OBVIOUS
<1>1. /\ Len(Flows) \in Nat
      /\ \A i \in Assertions : i \in Nat /\ i # 0 /\ Flows[i] \in Assertion
      /\ Workers \in Nat /\ Workers >= 1
  BY CaseFacts DEF Init
<1>2. TypeOK
  <2>1. \A i \in Assertions : rows[i].of \in 0 .. Len(Flows)
    BY <1>1 DEF Init, Blank
  <2>2. tries \in [Assertions -> 0 .. Attempts]
    BY DEF Init, Attempts
  <2>3. next \in 1 .. Len(Flows) + 1
    BY <1>1 DEF Init
  <2>. QED BY <2>1, <2>2, <2>3 DEF Init, TypeOK
<1>3. rows \in [Assertions -> [of : 0 .. Len(Flows),
                              outcome : Verdicts \cup {"blank", "error", "quarantined"}]]
  BY <1>1 DEF Init, Blank
<1>4. met \in [Assertions -> SUBSET {"open", "shut", "loss", "nopod", "stall"}]
  BY DEF Init
<1>5. \A i \in Assertions : Knows(i) /\ RowIs(i)
  BY DEF Init, Knows, RowIs, Settled, Recorded
<1>6. Pool
  BY <1>1, FS_EmptySet DEF Init, Pool, Holding, Assertions
<1>7. Verdict
  BY DEF Init, Verdict
<1>. QED BY <1>2, <1>3, <1>4, <1>5, <1>6, <1>7 DEF IInv


LEMMA LaunchKeeps ==
  ASSUME IInv, Launch
  PROVE  IInv'
<1>0. /\ Len(Flows) \in Nat
      /\ \A j \in Assertions : j \in Nat /\ j # 0 /\ Flows[j] \in Assertion
      /\ IsFiniteSet(Assertions)
      /\ Workers \in Nat /\ Workers >= 1
      /\ Flows' = Flows /\ Assertions' = Assertions /\ Workers' = Workers /\ Serial' = Serial
  BY CaseFacts DEF IInv, TypeOK, Launch, vars, probing, world, history, Flows, Assertions, Workers, Serial
<1>. USE <1>0
<1>a. next \in 1 .. Len(Flows) /\ next \in Assertions /\ at[next] = "unborn"
  BY DEF IInv, TypeOK, Pool, Assertions, Launch
<1>b. sem' \subseteq Assertions /\ wg' \subseteq Assertions /\ next' \in 1 .. Len(Flows) + 1
  <2>1. sem \subseteq Assertions /\ wg \subseteq Assertions
    BY DEF IInv, TypeOK
  <2>2. next' = next + 1
    BY DEF Launch
  <2>3. sem' \subseteq Assertions /\ wg' \subseteq Assertions
    BY <1>a, <2>1 DEF Launch
  <2>. QED BY <1>a, <2>2, <2>3
<1>c. at' \in [Assertions -> {"unborn", "ready", "exec", "pause", "settled", "written",
                            "released", "ended"}]
  BY DEF IInv, TypeOK, Launch
<1>1. TypeOK'
  BY <1>b, <1>c DEF IInv, TypeOK, Launch, vars, probing, world, history
<1>2. (rows \in [Assertions -> [of : 0 .. Len(Flows),
                              outcome : Verdicts \cup {"blank", "error", "quarantined"}]])'
  BY DEF IInv, TypeOK, Launch, vars, probing, world, history
<1>3. (met \in [Assertions -> SUBSET {"open", "shut", "loss", "nopod", "stall"}])'
  BY DEF IInv, Launch, vars, probing, world, history
<1>4. \A j \in Assertions : Knows(j)'
  BY <1>a DEF IInv, TypeOK, Knows, Settled, Verdicts, Launch, vars, probing, world, history
<1>5. \A j \in Assertions : RowIs(j)'
  BY <1>a DEF IInv, TypeOK, RowIs, Recorded, Launch, vars, probing, world, history
<1>6. Pool'
  <2>1. \A j \in Assertions : at'[j] = "unborn" <=> j >= next'
    BY <1>a DEF IInv, TypeOK, Pool, Assertions, Launch, vars, probing, world, history
  <2>2. Serial => \A j \in Assertions : j < next' - 1 => at'[j] = "ended"
    BY <1>a DEF IInv, TypeOK, Pool, Assertions, Launch, vars, probing, world, history
  <2>3. ~Serial => \A j \in Assertions :
           /\ at'[j] \in Holding => j \in sem'
           /\ at'[j] \in Holding \cup {"released"} => j \in wg'
    BY <1>a DEF IInv, TypeOK, Pool, Holding, Launch, vars, probing, world, history
  <2>4. Cardinality(sem') <= Workers
    <3>1. IsFiniteSet(sem)
      BY FS_Subset DEF IInv, TypeOK
    <3>2. Cardinality(sem) \in Nat
      BY <3>1, FS_CardinalityType
    <3>3. Cardinality(sem \cup {next}) \in {Cardinality(sem), Cardinality(sem) + 1}
      BY <3>1, FS_AddElement
    <3>4. CASE Serial
      BY <3>4 DEF IInv, Pool, Launch
    <3>5. CASE ~Serial
      <4>1. Cardinality(sem) < Workers /\ sem' = sem \cup {next}
        BY <3>5 DEF Launch
      <4>. QED BY <3>2, <3>3, <4>1
    <3>. QED BY <3>4, <3>5
  <2>. QED BY <2>1, <2>2, <2>3, <2>4 DEF Pool
<1>7. Verdict'
  BY DEF IInv, TypeOK, Verdict, Fatal, Launch, vars, probing, world, history
<1>. QED BY <1>1, <1>2, <1>3, <1>4, <1>5, <1>6, <1>7 DEF IInv

LEMMA CollectKeeps ==
  ASSUME IInv, Collect
  PROVE  IInv'
<1>0. /\ Len(Flows) \in Nat
      /\ \A j \in Assertions : j \in Nat /\ j # 0 /\ Flows[j] \in Assertion
      /\ IsFiniteSet(Assertions)
      /\ Workers \in Nat /\ Workers >= 1
      /\ Flows' = Flows /\ Assertions' = Assertions /\ Workers' = Workers /\ Serial' = Serial
  BY CaseFacts DEF IInv, TypeOK, Collect, vars, probing, world, history, Flows, Assertions, Workers, Serial
<1>. USE <1>0
<1>1. TypeOK'
  BY DEF IInv, TypeOK, Collect, vars, probing, world, history
<1>2. (rows \in [Assertions -> [of : 0 .. Len(Flows),
                              outcome : Verdicts \cup {"blank", "error", "quarantined"}]])'
  BY DEF IInv, TypeOK, Collect, vars, probing, world, history
<1>3. (met \in [Assertions -> SUBSET {"open", "shut", "loss", "nopod", "stall"}])'
  BY DEF IInv, Collect, vars, probing, world, history
<1>4. \A j \in Assertions : Knows(j)'
  BY DEF IInv, TypeOK, Knows, Settled, Verdicts, Collect, vars, probing, world, history
<1>5. \A j \in Assertions : RowIs(j)'
  BY DEF IInv, TypeOK, RowIs, Recorded, Collect, vars, probing, world, history
<1>6. Pool'
  BY DEF IInv, TypeOK, Pool, Holding, Collect, vars, probing, world, history
<1>7. Verdict'
  <2>1. \A j \in Assertions : at[j] # "unborn"
    BY DEF IInv, TypeOK, Pool, Assertions, Collect
  <2>2. ASSUME NEW j \in Assertions PROVE at[j] = "ended"
    <3>1. CASE Serial
      BY <3>1 DEF Collect
    <3>2. CASE ~Serial
      <4>1. at[j] \notin Holding \cup {"released"}
        BY <3>2 DEF IInv, Pool, Collect
      <4>. QED BY <2>1, <4>1 DEF IInv, TypeOK, Holding
    <3>. QED BY <3>1, <3>2
  <2>. QED BY <2>2 DEF Verdict, Collect, vars, probing, world, history
<1>. QED BY <1>1, <1>2, <1>3, <1>4, <1>5, <1>6, <1>7 DEF IInv

LEMMA ReportKeeps ==
  ASSUME IInv, Report
  PROVE  IInv'
<1>0. /\ Len(Flows) \in Nat
      /\ \A j \in Assertions : j \in Nat /\ j # 0 /\ Flows[j] \in Assertion
      /\ IsFiniteSet(Assertions)
      /\ Workers \in Nat /\ Workers >= 1
      /\ Flows' = Flows /\ Assertions' = Assertions /\ Workers' = Workers /\ Serial' = Serial
  BY CaseFacts DEF IInv, TypeOK, Report, vars, probing, world, history, Flows, Assertions, Workers, Serial
<1>. USE <1>0
<1>1. TypeOK'
  BY DEF IInv, TypeOK, Report, vars, probing, world, history
<1>2. (rows \in [Assertions -> [of : 0 .. Len(Flows),
                              outcome : Verdicts \cup {"blank", "error", "quarantined"}]])'
  BY DEF IInv, TypeOK, Report, vars, probing, world, history
<1>3. (met \in [Assertions -> SUBSET {"open", "shut", "loss", "nopod", "stall"}])'
  BY DEF IInv, Report, vars, probing, world, history
<1>4. \A j \in Assertions : Knows(j)'
  BY DEF IInv, TypeOK, Knows, Settled, Verdicts, Report, vars, probing, world, history
<1>5. \A j \in Assertions : RowIs(j)'
  BY DEF IInv, TypeOK, RowIs, Recorded, Report, vars, probing, world, history
<1>6. Pool'
  BY DEF IInv, TypeOK, Pool, Holding, Report, vars, probing, world, history
<1>7. Verdict'
  BY DEF IInv, TypeOK, Verdict, Fatal, Report, vars, probing, world, history
<1>. QED BY <1>1, <1>2, <1>3, <1>4, <1>5, <1>6, <1>7 DEF IInv

LEMMA BeginKeeps ==
  ASSUME IInv, NEW i \in Assertions, Begin(i)
  PROVE  IInv'
<1>0. /\ Len(Flows) \in Nat
      /\ \A j \in Assertions : j \in Nat /\ j # 0 /\ Flows[j] \in Assertion
      /\ IsFiniteSet(Assertions)
      /\ Workers \in Nat /\ Workers >= 1
      /\ Flows' = Flows /\ Assertions' = Assertions /\ Workers' = Workers /\ Serial' = Serial
  BY CaseFacts DEF IInv, TypeOK, Begin, Settle, vars, probing, world, history, Flows, Assertions, Workers, Serial
<1>. USE <1>0
<1>a. at' \in [Assertions -> {"unborn", "ready", "exec", "pause", "settled", "written",
                          "released", "ended"}]
  BY DEF IInv, TypeOK, Begin, Settle
<1>b. outcome' \in [Assertions -> Verdicts \cup {"blank", "error", "quarantined"}]
  BY DEF IInv, TypeOK, Begin, Settle
<1>c. tries' \in [Assertions -> 0 .. Attempts]
  <2>1. tries \in [Assertions -> 0 .. 4]
    BY DEF IInv, TypeOK, Attempts
  <2>2. tries' = tries \/ tries' = [tries EXCEPT ![i] = 1]
    BY DEF Begin, Settle
  <2>3. 0 .. 4 \subseteq Nat /\ 1 \in 0 .. 4
    OBVIOUS
  <2>. QED BY <2>1, <2>2, <2>3 DEF Attempts
<1>1. TypeOK'
  BY <1>a, <1>b, <1>c DEF IInv, TypeOK, Begin, Settle, vars, probing, world, history
<1>2. (rows \in [Assertions -> [of : 0 .. Len(Flows),
                              outcome : Verdicts \cup {"blank", "error", "quarantined"}]])'
  BY DEF IInv, TypeOK, Begin, Settle, vars, probing, world, history
<1>3. (met \in [Assertions -> SUBSET {"open", "shut", "loss", "nopod", "stall"}])'
  BY DEF IInv, Begin, Settle, vars, probing, world, history
<1>4. \A j \in Assertions : Knows(j)'
  BY DEF IInv, TypeOK, Knows, Settled, Verdicts, Begin, Settle, vars, probing, world, history
<1>5. \A j \in Assertions : RowIs(j)'
  BY DEF IInv, TypeOK, RowIs, Recorded, Begin, Settle, vars, probing, world, history
<1>6. Pool'
  BY DEF IInv, TypeOK, Pool, Holding, Begin, Settle, vars, probing, world, history
<1>7. Verdict'
  BY DEF IInv, TypeOK, Verdict, Fatal, Begin, Settle, vars, probing, world, history
<1>. QED BY <1>1, <1>2, <1>3, <1>4, <1>5, <1>6, <1>7 DEF IInv

LEMMA AttemptKeeps ==
  ASSUME IInv, NEW i \in Assertions, Attempt(i)
  PROVE  IInv'
<1>0. /\ Len(Flows) \in Nat
      /\ \A j \in Assertions : j \in Nat /\ j # 0 /\ Flows[j] \in Assertion
      /\ IsFiniteSet(Assertions)
      /\ Workers \in Nat /\ Workers >= 1
      /\ Flows' = Flows /\ Assertions' = Assertions /\ Workers' = Workers /\ Serial' = Serial
  BY CaseFacts DEF IInv, TypeOK, Attempt, Settle, Unreached, Fault, Attempts, vars, probing, world, history, Flows, Assertions, Workers, Serial
<1>. USE <1>0
<1>a. at' \in [Assertions -> {"unborn", "ready", "exec", "pause", "settled", "written",
                          "released", "ended"}]
  BY DEF IInv, TypeOK, Attempt, Settle, Unreached, Fault, Attempts, vars, probing, world, history
<1>b. outcome' \in [Assertions -> Verdicts \cup {"blank", "error", "quarantined"}]
  BY DEF IInv, TypeOK, Verdicts, Attempt, Settle, Unreached, Fault, Attempts, vars, probing, world, history
<1>1. TypeOK'
  BY <1>a, <1>b DEF IInv, TypeOK, Attempt, Settle, Unreached, Fault, Attempts, vars, probing, world, history
<1>2. (rows \in [Assertions -> [of : 0 .. Len(Flows),
                              outcome : Verdicts \cup {"blank", "error", "quarantined"}]])'
  BY DEF IInv, TypeOK, Attempt, Settle, Unreached, Fault, Attempts, vars, probing, world, history
<1>3. (met \in [Assertions -> SUBSET {"open", "shut", "loss", "nopod", "stall"}])'
  BY DEF IInv, Attempt, Settle, Unreached, Fault, Attempts, vars, probing, world, history
<1>4. \A j \in Assertions : Knows(j)'
  <2>1. \A j \in Assertions \ {i} : Knows(j)'
    BY DEF IInv, TypeOK, Knows, Settled, Verdicts, Attempt, Settle, Unreached, Fault, Attempts, vars, probing, world, history
  <2>2. Knows(i)'
    <3>1. /\ tries[i] \in 0 .. Attempts /\ met[i] \cap {"open", "stall"} = {}
          /\ ~Flows[i].quarantined /\ at[i] = "exec"
      BY DEF IInv, TypeOK, Knows, Attempt
    <3>2. CASE at' = [at EXCEPT ![i] = "pause"]
      <4>1. /\ at'[i] = "pause" /\ tries' = tries /\ tries[i] # Attempts
            /\ met'[i] \cap {"open", "stall"} = {}
        BY <3>1, <3>2 DEF IInv, TypeOK, Attempt, Settle, Unreached
      <4>. QED BY <3>1, <4>1 DEF Knows, Settled, Attempts, Attempt
    <3>3. CASE at' # [at EXCEPT ![i] = "pause"]
      <4>1. /\ at'[i] = "settled" /\ tries' = tries
            /\ \/ outcome'[i] = "allow" /\ "open" \in met'[i]
               \/ outcome'[i] = "error" /\ "open" \notin met'[i]
               \/ outcome'[i] = "deny" /\ tries[i] = Attempts
                  /\ met'[i] \cap {"open", "stall"} = {}
        <5>1. /\ at \in [Assertions -> {"unborn", "ready", "exec", "pause", "settled", "written",
                                      "released", "ended"}]
              /\ outcome \in [Assertions -> Verdicts \cup {"blank", "error", "quarantined"}]
              /\ met \in [Assertions -> SUBSET {"open", "shut", "loss", "nopod", "stall"}]
          BY DEF IInv, TypeOK
        <5>2. CASE Settle(i, "allow") /\ met' = [met EXCEPT ![i] = @ \cup {"open"}]
          BY <5>1, <5>2 DEF Settle
        <5>3. CASE Settle(i, "error") /\ met' = [met EXCEPT ![i] = @ \cup {"stall"}]
          BY <3>1, <5>1, <5>3 DEF Settle
        <5>4. CASE /\ Unreached(i)
                   /\ \E m \in {"loss", "nopod", "shut"} : met' = [met EXCEPT ![i] = @ \cup {m}]
          BY <3>1, <3>3, <5>1, <5>4 DEF Settle, Unreached
        <5>. QED BY <5>2, <5>3, <5>4 DEF Attempt
      <4>. QED BY <3>1, <4>1 DEF Knows, Settled, Verdicts, Attempt
    <3>. QED BY <3>2, <3>3
  <2>. QED BY <2>1, <2>2
<1>5. \A j \in Assertions : RowIs(j)'
  <2>1. /\ at \in [Assertions -> {"unborn", "ready", "exec", "pause", "settled", "written",
                                  "released", "ended"}]
        /\ outcome \in [Assertions -> Verdicts \cup {"blank", "error", "quarantined"}]
        /\ \A j \in Assertions : RowIs(j)
    BY DEF IInv, TypeOK
  <2>2. rows' = rows /\ at[i] = "exec"
    BY DEF Attempt, vars, probing, world, history
  <2>3. at'[i] \in {"pause", "settled"} /\ \A j \in Assertions \ {i} : at'[j] = at[j]
    BY <2>1 DEF Attempt, Settle, Unreached
  <2>4. \A j \in Assertions \ {i} : outcome'[j] = outcome[j]
    BY <2>1 DEF Attempt, Settle, Unreached
  <2>5. RowIs(i)'
    BY <2>1, <2>2, <2>3 DEF RowIs, Recorded
  <2>6. \A j \in Assertions \ {i} : RowIs(j)'
    BY <2>1, <2>2, <2>3, <2>4 DEF RowIs
  <2>. QED BY <2>5, <2>6
<1>6. Pool'
  BY DEF IInv, TypeOK, Pool, Holding, Attempt, Settle, Unreached, Fault, Attempts, vars, probing, world, history
<1>7. Verdict'
  BY DEF IInv, TypeOK, Verdict, Fatal, Attempt, Settle, Unreached, Fault, Attempts, vars, probing, world, history
<1>. QED BY <1>1, <1>2, <1>3, <1>4, <1>5, <1>6, <1>7 DEF IInv

LEMMA AgainKeeps ==
  ASSUME IInv, NEW i \in Assertions, Again(i)
  PROVE  IInv'
<1>0. /\ Len(Flows) \in Nat
      /\ \A j \in Assertions : j \in Nat /\ j # 0 /\ Flows[j] \in Assertion
      /\ IsFiniteSet(Assertions)
      /\ Workers \in Nat /\ Workers >= 1
      /\ Flows' = Flows /\ Assertions' = Assertions /\ Workers' = Workers /\ Serial' = Serial
  BY CaseFacts DEF IInv, TypeOK, Again, Attempts, vars, probing, world, history, Flows, Assertions, Workers, Serial
<1>. USE <1>0
<1>1. TypeOK'
  BY DEF IInv, TypeOK, Knows, Again, Attempts, vars, probing, world, history
<1>2. (rows \in [Assertions -> [of : 0 .. Len(Flows),
                              outcome : Verdicts \cup {"blank", "error", "quarantined"}]])'
  BY DEF IInv, TypeOK, Again, Attempts, vars, probing, world, history
<1>3. (met \in [Assertions -> SUBSET {"open", "shut", "loss", "nopod", "stall"}])'
  BY DEF IInv, Again, Attempts, vars, probing, world, history
<1>4. \A j \in Assertions : Knows(j)'
  BY DEF IInv, TypeOK, Knows, Settled, Verdicts, Again, Attempts, vars, probing, world, history
<1>5. \A j \in Assertions : RowIs(j)'
  BY DEF IInv, TypeOK, RowIs, Recorded, Again, Attempts, vars, probing, world, history
<1>6. Pool'
  BY DEF IInv, TypeOK, Pool, Holding, Again, Attempts, vars, probing, world, history
<1>7. Verdict'
  BY DEF IInv, TypeOK, Verdict, Fatal, Again, Attempts, vars, probing, world, history
<1>. QED BY <1>1, <1>2, <1>3, <1>4, <1>5, <1>6, <1>7 DEF IInv

LEMMA WriteKeeps ==
  ASSUME IInv, NEW i \in Assertions, Write(i)
  PROVE  IInv'
<1>0. /\ Len(Flows) \in Nat
      /\ \A j \in Assertions : j \in Nat /\ j # 0 /\ Flows[j] \in Assertion
      /\ IsFiniteSet(Assertions)
      /\ Workers \in Nat /\ Workers >= 1
      /\ Flows' = Flows /\ Assertions' = Assertions /\ Workers' = Workers /\ Serial' = Serial
  BY CaseFacts DEF IInv, TypeOK, Write, vars, probing, world, history, Flows, Assertions, Workers, Serial
<1>. USE <1>0
<1>a. i \in 0 .. Len(Flows)
  BY DEF Assertions
<1>1. TypeOK'
  <2>1. \A j \in Assertions : rows'[j].of \in 0 .. Len(Flows)
    BY <1>a DEF IInv, TypeOK, Write, vars, probing, world, history
  <2>2. at' \in [Assertions -> {"unborn", "ready", "exec", "pause", "settled", "written",
                            "released", "ended"}]
    BY DEF IInv, TypeOK, Write, vars, probing, world, history
  <2>. QED BY <2>1, <2>2 DEF IInv, TypeOK, Write, vars, probing, world, history
<1>2. (rows \in [Assertions -> [of : 0 .. Len(Flows),
                              outcome : Verdicts \cup {"blank", "error", "quarantined"}]])'
  <2>1. [of |-> i, outcome |-> outcome[i]] \in
          [of : 0 .. Len(Flows), outcome : Verdicts \cup {"blank", "error", "quarantined"}]
    BY <1>a DEF IInv, TypeOK
  <2>. QED BY <2>1 DEF IInv, Write, vars, probing, world, history
<1>3. (met \in [Assertions -> SUBSET {"open", "shut", "loss", "nopod", "stall"}])'
  BY DEF IInv, Write, vars, probing, world, history
<1>4. \A j \in Assertions : Knows(j)'
  BY DEF IInv, TypeOK, Knows, Settled, Verdicts, Write, vars, probing, world, history
<1>5. \A j \in Assertions : RowIs(j)'
  BY DEF IInv, TypeOK, RowIs, Recorded, Write, vars, probing, world, history
<1>6. Pool'
  BY DEF IInv, TypeOK, Pool, Holding, Write, vars, probing, world, history
<1>7. Verdict'
  BY DEF IInv, TypeOK, Verdict, Fatal, Write, vars, probing, world, history
<1>. QED BY <1>1, <1>2, <1>3, <1>4, <1>5, <1>6, <1>7 DEF IInv

LEMMA ReleaseKeeps ==
  ASSUME IInv, NEW i \in Assertions, Release(i)
  PROVE  IInv'
<1>0. /\ Len(Flows) \in Nat
      /\ \A j \in Assertions : j \in Nat /\ j # 0 /\ Flows[j] \in Assertion
      /\ IsFiniteSet(Assertions)
      /\ Workers \in Nat /\ Workers >= 1
      /\ Flows' = Flows /\ Assertions' = Assertions /\ Workers' = Workers /\ Serial' = Serial
  BY CaseFacts DEF IInv, TypeOK, Release, vars, probing, world, history, Flows, Assertions, Workers, Serial
<1>. USE <1>0
<1>1. TypeOK'
  BY DEF IInv, TypeOK, Release, vars, probing, world, history
<1>2. (rows \in [Assertions -> [of : 0 .. Len(Flows),
                              outcome : Verdicts \cup {"blank", "error", "quarantined"}]])'
  BY DEF IInv, TypeOK, Release, vars, probing, world, history
<1>3. (met \in [Assertions -> SUBSET {"open", "shut", "loss", "nopod", "stall"}])'
  BY DEF IInv, Release, vars, probing, world, history
<1>4. \A j \in Assertions : Knows(j)'
  BY DEF IInv, TypeOK, Knows, Settled, Verdicts, Release, vars, probing, world, history
<1>5. \A j \in Assertions : RowIs(j)'
  BY DEF IInv, TypeOK, RowIs, Recorded, Release, vars, probing, world, history
<1>6. Pool'
  <2>1. IsFiniteSet(sem)
    BY FS_Subset DEF IInv, TypeOK
  <2>2. Cardinality(sem) \in Nat /\ Cardinality(sem') \in Nat /\ Cardinality(sem') <= Cardinality(sem)
    BY <2>1, FS_Subset, FS_RemoveElement, FS_CardinalityType DEF Release
  <2>. QED BY <2>2 DEF IInv, TypeOK, Pool, Holding, Release, vars, probing, world, history
<1>7. Verdict'
  BY DEF IInv, TypeOK, Verdict, Fatal, Release, vars, probing, world, history
<1>. QED BY <1>1, <1>2, <1>3, <1>4, <1>5, <1>6, <1>7 DEF IInv

LEMMA DoneKeeps ==
  ASSUME IInv, NEW i \in Assertions, Done(i)
  PROVE  IInv'
<1>0. /\ Len(Flows) \in Nat
      /\ \A j \in Assertions : j \in Nat /\ j # 0 /\ Flows[j] \in Assertion
      /\ IsFiniteSet(Assertions)
      /\ Workers \in Nat /\ Workers >= 1
      /\ Flows' = Flows /\ Assertions' = Assertions /\ Workers' = Workers /\ Serial' = Serial
  BY CaseFacts DEF IInv, TypeOK, Done, vars, probing, world, history, Flows, Assertions, Workers, Serial
<1>. USE <1>0
<1>1. TypeOK'
  BY DEF IInv, TypeOK, Done, vars, probing, world, history
<1>2. (rows \in [Assertions -> [of : 0 .. Len(Flows),
                              outcome : Verdicts \cup {"blank", "error", "quarantined"}]])'
  BY DEF IInv, TypeOK, Done, vars, probing, world, history
<1>3. (met \in [Assertions -> SUBSET {"open", "shut", "loss", "nopod", "stall"}])'
  BY DEF IInv, Done, vars, probing, world, history
<1>4. \A j \in Assertions : Knows(j)'
  BY DEF IInv, TypeOK, Knows, Settled, Verdicts, Done, vars, probing, world, history
<1>5. \A j \in Assertions : RowIs(j)'
  BY DEF IInv, TypeOK, RowIs, Recorded, Done, vars, probing, world, history
<1>6. Pool'
  BY DEF IInv, TypeOK, Pool, Holding, Done, vars, probing, world, history
<1>7. Verdict'
  BY DEF IInv, TypeOK, Verdict, Fatal, Done, vars, probing, world, history
<1>. QED BY <1>1, <1>2, <1>3, <1>4, <1>5, <1>6, <1>7 DEF IInv

LEMMA ConvergeKeeps ==
  ASSUME IInv, NEW i \in Assertions, Converge(i)
  PROVE  IInv'
<1>0. /\ Len(Flows) \in Nat
      /\ \A j \in Assertions : j \in Nat /\ j # 0 /\ Flows[j] \in Assertion
      /\ IsFiniteSet(Assertions)
      /\ Workers \in Nat /\ Workers >= 1
      /\ Flows' = Flows /\ Assertions' = Assertions /\ Workers' = Workers /\ Serial' = Serial
  BY CaseFacts DEF IInv, TypeOK, Converge, vars, probing, world, history, Flows, Assertions, Workers, Serial
<1>. USE <1>0
<1>1. TypeOK'
  BY DEF IInv, TypeOK, Converge, vars, probing, world, history
<1>2. (rows \in [Assertions -> [of : 0 .. Len(Flows),
                              outcome : Verdicts \cup {"blank", "error", "quarantined"}]])'
  BY DEF IInv, TypeOK, Converge, vars, probing, world, history
<1>3. (met \in [Assertions -> SUBSET {"open", "shut", "loss", "nopod", "stall"}])'
  BY DEF IInv, Converge, vars, probing, world, history
<1>4. \A j \in Assertions : Knows(j)'
  BY DEF IInv, TypeOK, Knows, Settled, Verdicts, Converge, vars, probing, world, history
<1>5. \A j \in Assertions : RowIs(j)'
  BY DEF IInv, TypeOK, RowIs, Recorded, Converge, vars, probing, world, history
<1>6. Pool'
  BY DEF IInv, TypeOK, Pool, Holding, Converge, vars, probing, world, history
<1>7. Verdict'
  BY DEF IInv, TypeOK, Verdict, Fatal, Converge, vars, probing, world, history
<1>. QED BY <1>1, <1>2, <1>3, <1>4, <1>5, <1>6, <1>7 DEF IInv

LEMMA VanishKeeps ==
  ASSUME IInv, NEW i \in Assertions, Vanish(i)
  PROVE  IInv'
<1>0. /\ Len(Flows) \in Nat
      /\ \A j \in Assertions : j \in Nat /\ j # 0 /\ Flows[j] \in Assertion
      /\ IsFiniteSet(Assertions)
      /\ Workers \in Nat /\ Workers >= 1
      /\ Flows' = Flows /\ Assertions' = Assertions /\ Workers' = Workers /\ Serial' = Serial
  BY CaseFacts DEF IInv, TypeOK, Vanish, Fault, vars, probing, world, history, Flows, Assertions, Workers, Serial
<1>. USE <1>0
<1>1. TypeOK'
  BY DEF IInv, TypeOK, Vanish, Fault, vars, probing, world, history
<1>2. (rows \in [Assertions -> [of : 0 .. Len(Flows),
                              outcome : Verdicts \cup {"blank", "error", "quarantined"}]])'
  BY DEF IInv, TypeOK, Vanish, Fault, vars, probing, world, history
<1>3. (met \in [Assertions -> SUBSET {"open", "shut", "loss", "nopod", "stall"}])'
  BY DEF IInv, Vanish, Fault, vars, probing, world, history
<1>4. \A j \in Assertions : Knows(j)'
  BY DEF IInv, TypeOK, Knows, Settled, Verdicts, Vanish, Fault, vars, probing, world, history
<1>5. \A j \in Assertions : RowIs(j)'
  BY DEF IInv, TypeOK, RowIs, Recorded, Vanish, Fault, vars, probing, world, history
<1>6. Pool'
  BY DEF IInv, TypeOK, Pool, Holding, Vanish, Fault, vars, probing, world, history
<1>7. Verdict'
  BY DEF IInv, TypeOK, Verdict, Fatal, Vanish, Fault, vars, probing, world, history
<1>. QED BY <1>1, <1>2, <1>3, <1>4, <1>5, <1>6, <1>7 DEF IInv

LEMMA StepKeeps == IInv /\ [Next]_vars => IInv'
<1>. SUFFICES ASSUME IInv, [Next]_vars PROVE IInv'
  OBVIOUS
<1>1. CASE Launch
  BY <1>1, LaunchKeeps
<1>2. CASE Collect
  BY <1>2, CollectKeeps
<1>3. CASE Report
  BY <1>3, ReportKeeps
<1>4. CASE \E i \in Assertions : Probe(i)
  <2>. PICK i \in Assertions : Probe(i)
    BY <1>4
  <2>1. \/ Begin(i) \/ Attempt(i) \/ Again(i)
        \/ Write(i) \/ Release(i) \/ Done(i)
    BY DEF Probe
  <2>. QED
    BY <2>1, BeginKeeps, AttemptKeeps, AgainKeeps, WriteKeeps, ReleaseKeeps, DoneKeeps
<1>5. CASE Cluster
  BY <1>5, ConvergeKeeps, VanishKeeps DEF Cluster
<1>6. CASE UNCHANGED vars
  BY <1>6 DEF vars, probing, world, history, IInv, TypeOK, Knows, RowIs, Pool, Verdict, Fatal,
              Settled, Recorded, Holding, Flows, Assertions, Serial, Workers
<1>. QED BY <1>1, <1>2, <1>3, <1>4, <1>5, <1>6 DEF Next, Work, Finished

LEMMA Inductive == Spec => []IInv
<1>. QED BY Initially, StepKeeps, PTL DEF Spec

\* TypeCorrect: the variables keep their types; no probe makes a fifth attempt.
THEOREM TypeCorrect == Spec => []TypeOK
<1>1. IInv => TypeOK
  BY DEF IInv
<1>. QED BY <1>1, Inductive, PTL

\* RowsBelong: in every interleaving row i is assertion i's and says what its own attempts met.
THEOREM RowsBelong == Spec => []RowsSound
<1>1. IInv => RowsSound
  <2>. SUFFICES ASSUME IInv, NEW i \in Assertions, Written(i)
                PROVE  /\ rows[i].of = i
                       /\ rows[i].outcome = "allow" <=> "open" \in met[i]
                       /\ rows[i].outcome = "deny" =>
                            tries[i] = Attempts /\ met[i] \cap {"open", "stall"} = {}
                       /\ rows[i].outcome = "quarantined" <=> Flows[i].quarantined
    BY DEF RowsSound
  <2>1. at[i] \in Recorded /\ rows[i] = [of |-> i, outcome |-> outcome[i]] /\ Knows(i)
    BY DEF IInv, RowIs, Written
  <2>. QED BY <2>1 DEF Knows, Recorded, Settled
<1>. QED BY <1>1, Inductive, PTL

\* GreenMeansProbed: a case without a failure has a verdict of the cluster for every assertion
\* that is not quarantined, and the engine gave the same.
THEOREM GreenMeansProbed == Spec => []GreenMeansAgreed
<1>1. IInv => GreenMeansAgreed
  <2>. SUFFICES ASSUME IInv, pc = "done", ~failed,
                       NEW i \in Assertions, ~Flows[i].quarantined
                PROVE  rows[i] = [of |-> i, outcome |-> Flows[i].engine]
    BY DEF GreenMeansAgreed
  <2>1. at[i] = "ended" /\ ~Fatal(rows[i])
    BY DEF IInv, Verdict
  <2>2. rows[i] = [of |-> i, outcome |-> outcome[i]]
    BY <2>1 DEF IInv, RowIs, Recorded
  <2>3. outcome[i] \in Verdicts \cup {"error"}
    BY <2>1 DEF IInv, Knows, Settled
  <2>4. i # 0
    BY CaseFacts DEF IInv, TypeOK
  <2>. QED BY <2>1, <2>2, <2>3, <2>4 DEF Fatal, Verdicts
<1>. QED BY <1>1, Inductive, PTL

LEMMA InFlightBound ==
  ASSUME IInv
  PROVE  Cardinality(InFlight) \in Nat /\ Cardinality(InFlight) <= Workers
<1>0. /\ \A j \in Assertions : j \in Nat
      /\ IsFiniteSet(Assertions) /\ Workers \in Nat /\ Workers >= 1
  BY CaseFacts DEF IInv, TypeOK
<1>1. CASE Serial
  <2>1. InFlight \subseteq {next - 1}
    <3>. SUFFICES ASSUME NEW i \in InFlight PROVE i = next - 1
      OBVIOUS
    <3>1. i \in Assertions /\ at[i] # "unborn" /\ at[i] # "ended"
      BY DEF InFlight
    <3>2. ~(i >= next) /\ ~(i < next - 1)
      BY <1>1, <3>1 DEF IInv, Pool
    <3>3. next \in Int /\ i \in Int
      BY <1>0, <3>1, CaseFacts DEF IInv, TypeOK
    <3>. QED BY <3>2, <3>3
  <2>2. IsFiniteSet({next - 1}) /\ Cardinality({next - 1}) = 1
    BY FS_Singleton
  <2>3. Cardinality(InFlight) <= 1 /\ Cardinality(InFlight) \in Nat
    BY <2>1, <2>2, FS_Subset, FS_CardinalityType
  <2>. QED BY <1>0, <2>3
<1>2. CASE ~Serial
  <2>1. InFlight \subseteq sem
    BY <1>2 DEF IInv, Pool, InFlight, Holding
  <2>2. IsFiniteSet(sem)
    BY <1>0, FS_Subset DEF IInv, TypeOK
  <2>3. /\ Cardinality(InFlight) \in Nat /\ Cardinality(sem) \in Nat
        /\ Cardinality(InFlight) <= Cardinality(sem)
    BY <2>1, <2>2, FS_Subset, FS_CardinalityType
  <2>4. Cardinality(sem) <= Workers
    BY DEF IInv, Pool
  <2>. QED BY <1>0, <2>3, <2>4
<1>. QED BY <1>1, <1>2

\* PoolIsBounded: no more probes are in flight than the semaphore has places, for every
\* number of assertions and places.
THEOREM PoolIsBounded == Spec => []PoolBounded
<1>1. IInv => PoolBounded
  <2>. SUFFICES ASSUME IInv PROVE PoolBounded
    OBVIOUS
  <2>1. conc \in Int
    BY BoundsAssumption DEF IInv, TypeOK
  <2>2. Cardinality(InFlight) \in Nat /\ Cardinality(InFlight) <= Workers
    BY InFlightBound
  <2>. QED BY <2>1, <2>2 DEF PoolBounded, Workers
<1>. QED BY <1>1, Inductive, PTL

\* SerialCases: the flows of HostEndpoint and observer cases are probed one at a time.
THEOREM SerialCases == Spec => []OneFlowAtATime
<1>1. IInv => OneFlowAtATime
  BY InFlightBound DEF OneFlowAtATime, Workers
<1>. QED BY <1>1, Inductive, PTL
-----------------------------------------------------------------------------
\* What a probe knows of a flow that had settled before its first attempt: every attempt that
\* failed to reach an open flow was a fault.
Patient(i) ==
  i \notin early =>
    /\ Opens(Flows[i]) /\ i \notin gone =>
         /\ at[i] = "exec"  => open[i] /\ tries[i] - 1 <= faults
         /\ at[i] = "pause" => open[i] /\ tries[i] <= faults
         /\ at[i] \in Settled => outcome[i] # "deny"
    /\ ~Opens(Flows[i]) =>
         /\ at[i] \in {"exec", "pause"} => ~open[i]
         /\ at[i] \in Settled => outcome[i] # "allow"

PInv == faults \in 0 .. MaxFaults /\ \A i \in Assertions : Patient(i)

LEMMA PatienceKeeps ==
  ASSUME MaxFaults < Attempts, IInv, PInv, [Next]_vars
  PROVE  PInv'
<1>0. /\ \A j \in Assertions : j \in Nat /\ Flows[j] \in Assertion
      /\ MaxFaults \in Nat
  BY CaseFacts, BoundsAssumption DEF IInv, TypeOK
<1>a. /\ tries \in [Assertions -> 0 .. Attempts] /\ open \in [Assertions -> BOOLEAN]
      /\ at \in [Assertions -> {"unborn", "ready", "exec", "pause", "settled", "written",
                                "released", "ended"}]
      /\ outcome \in [Assertions -> Verdicts \cup {"blank", "error", "quarantined"}]
  BY DEF IInv, TypeOK
<1>b. faults \in 0 .. MaxFaults /\ \A i \in Assertions : Patient(i)
  BY DEF PInv
<1>1. CASE Launch \/ Collect \/ Report
  <2>1. /\ faults' = faults /\ Assertions' = Assertions /\ Flows' = Flows
        /\ early' = early /\ gone' = gone /\ open' = open /\ tries' = tries
        /\ outcome' = outcome
        /\ \A i \in Assertions : at'[i] = at[i] \/ at'[i] = "ready"
    BY <1>1, <1>a DEF Launch, Collect, Report, probing, world, history, Flows, Assertions
  <2>. QED BY <1>b, <2>1 DEF PInv, Patient, Settled, Opens
<1>2. ASSUME NEW i \in Assertions, Begin(i) PROVE PInv'
  <2>1. faults' = faults /\ Assertions' = Assertions /\ Flows' = Flows
        /\ gone' = gone /\ open' = open
    BY <1>2 DEF Begin, world, Flows, Assertions
  <2>2. \A j \in Assertions \ {i} :
          at'[j] = at[j] /\ tries'[j] = tries[j] /\ outcome'[j] = outcome[j]
          /\ (j \in early' <=> j \in early)
    BY <1>2, <1>a DEF Begin, Settle
  <2>3. Patient(i)'
    <3>1. CASE at' = [at EXCEPT ![i] = "exec"] /\ tries' = [tries EXCEPT ![i] = 1]
               /\ early' = IF open[i] = Opens(Flows[i]) THEN early ELSE early \cup {i}
      BY <1>0, <1>a, <1>b, <2>1, <3>1 DEF Patient, Settled, Opens
    <3>2. CASE at' = [at EXCEPT ![i] = "settled"]
               /\ \/ outcome' = [outcome EXCEPT ![i] = "quarantined"]
                  \/ outcome' = [outcome EXCEPT ![i] = "error"]
      BY <1>a, <3>2 DEF Patient
    <3>. QED BY <1>2, <3>1, <3>2 DEF Begin, Settle
  <2>. QED BY <1>b, <2>1, <2>2, <2>3 DEF PInv, Patient, Opens
<1>3. ASSUME NEW i \in Assertions, Attempt(i) PROVE PInv'
  <2>1. early' = early /\ Assertions' = Assertions /\ Flows' = Flows
        /\ gone' = gone /\ open' = open /\ at[i] = "exec"
    BY <1>3 DEF Attempt, world, Flows, Assertions
  <2>2. faults' \in 0 .. MaxFaults /\ faults <= faults'
    BY <1>0, <1>3, <1>b DEF Attempt, Fault
  <2>3. \A j \in Assertions \ {i} :
          at'[j] = at[j] /\ tries'[j] = tries[j] /\ outcome'[j] = outcome[j]
    BY <1>3, <1>a DEF Attempt, Settle, Unreached
  <2>4. Patient(i)'
    <3>1. CASE Settle(i, "allow") /\ open[i]
      BY <1>a, <1>b, <2>1, <3>1 DEF Settle, Patient, Opens
    <3>2. CASE Settle(i, "error")
      BY <1>a, <3>2 DEF Settle, Patient
    <3>3. CASE open[i] /\ Unreached(i) /\ faults' = faults + 1
      <4>1. CASE tries[i] = Attempts
        BY <1>0, <1>a, <1>b, <2>1, <2>2, <3>3, <4>1 DEF Unreached, Settle, Patient, Opens, Attempts
      <4>2. CASE tries[i] # Attempts
        BY <1>0, <1>a, <1>b, <2>1, <3>3, <4>2 DEF Unreached, Patient, Settled, Opens, Attempts
      <4>. QED BY <4>1, <4>2
    <3>4. CASE (~open[i] \/ i \in gone) /\ Unreached(i)
      BY <1>a, <1>b, <2>1, <3>4 DEF Unreached, Settle, Patient, Settled, Opens
    <3>. QED BY <1>3, <3>1, <3>2, <3>3, <3>4 DEF Attempt, Fault
  <2>5. \A j \in Assertions : faults \in Int /\ faults' \in Int /\ tries[j] \in Int
    BY <1>a, <1>b, <2>2
  <2>6. ASSUME NEW j \in Assertions \ {i} PROVE Patient(j)'
    BY <1>b, <2>1, <2>2, <2>3, <2>5 DEF Patient, Opens
  <2>. QED BY <2>1, <2>2, <2>4, <2>6 DEF PInv
<1>4. ASSUME NEW i \in Assertions, Again(i) PROVE PInv'
  <2>1. faults' = faults /\ Assertions' = Assertions /\ Flows' = Flows
        /\ gone' = gone /\ open' = open /\ early' = early /\ outcome' = outcome
    BY <1>4 DEF Again, world, history, Flows, Assertions
  <2>2. \A j \in Assertions \ {i} : at'[j] = at[j] /\ tries'[j] = tries[j]
    BY <1>4, <1>a DEF Again
  <2>3. at[i] = "pause" /\ at'[i] = "exec" /\ tries'[i] - 1 = tries[i]
    BY <1>4, <1>a DEF Again
  <2>4. Patient(i)'
    BY <1>b, <2>1, <2>3 DEF Patient, Settled, Opens
  <2>. QED BY <1>b, <2>1, <2>2, <2>4 DEF PInv, Patient, Opens
<1>5. ASSUME NEW i \in Assertions, Write(i) \/ Release(i) \/ Done(i) PROVE PInv'
  <2>1. faults' = faults /\ Assertions' = Assertions /\ Flows' = Flows
        /\ gone' = gone /\ open' = open /\ early' = early /\ outcome' = outcome
        /\ tries' = tries
    BY <1>5 DEF Write, Release, Done, world, history, Flows, Assertions
  <2>2. \A j \in Assertions : at'[j] = at[j] \/ (at[j] \in Settled /\ at'[j] \in Settled)
    BY <1>5, <1>a DEF Write, Release, Done, Settled
  <2>. QED BY <1>b, <2>1, <2>2 DEF PInv, Patient, Opens, Settled
<1>6. ASSUME NEW i \in Assertions, Converge(i) PROVE PInv'
  <2>1. faults' = faults /\ Assertions' = Assertions /\ Flows' = Flows
        /\ gone' = gone /\ early' = early /\ outcome' = outcome /\ tries' = tries /\ at' = at
        /\ open[i] # Opens(Flows[i]) /\ open'[i] = ~open[i]
        /\ \A j \in Assertions \ {i} : open'[j] = open[j]
    BY <1>6, <1>a DEF Converge, probing, history, Flows, Assertions
  <2>. QED BY <1>a, <1>b, <2>1 DEF PInv, Patient, Opens
<1>7. ASSUME NEW i \in Assertions, Vanish(i) PROVE PInv'
  <2>1. /\ Assertions' = Assertions /\ Flows' = Flows
        /\ gone' = gone \cup {i} /\ early' = early /\ outcome' = outcome /\ tries' = tries
        /\ at' = at /\ open' = open /\ faults' = faults + 1 /\ faults' \in 0 .. MaxFaults
    BY <1>0, <1>7, <1>b DEF Vanish, Fault, probing, Flows, Assertions
  <2>2. ASSUME NEW j \in Assertions PROVE Patient(j)'
    <3>1. tries[j] \in Int /\ faults \in Int
      BY <1>a, <1>b
    <3>. QED BY <1>b, <2>1, <3>1 DEF Patient, Opens
  <2>. QED BY <2>1, <2>2 DEF PInv
<1>8. CASE UNCHANGED vars
  BY <1>8, <1>b DEF vars, probing, world, history, PInv, Patient, Flows, Assertions, Opens, Settled
<1>. QED BY <1>1, <1>2, <1>3, <1>4, <1>5, <1>6, <1>7, <1>8
     DEF Next, Work, Cluster, Finished, Probe

\* SettledIsReported: with fewer faults than attempts, a flow first tried after Felix had
\* programmed its policies is reported as they say.
THEOREM SettledIsReported ==
  ASSUME MaxFaults < Attempts
  PROVE  Spec => []SettledReported
<1>1. Init => PInv
  BY BoundsAssumption DEF Init, PInv, Patient, Settled
<1>2. IInv /\ PInv /\ [Next]_vars => PInv'
  BY PatienceKeeps
<1>3. IInv /\ PInv => SettledReported
  <2>. SUFFICES ASSUME IInv, PInv, NEW i \in Assertions, Written(i),
                       rows[i].outcome \in Verdicts, i \notin early, i \notin gone
                PROVE  rows[i].outcome = Flows[i].policy
    BY DEF SettledReported
  <2>1. at[i] \in Settled /\ rows[i] = [of |-> i, outcome |-> outcome[i]] /\ Patient(i)
    BY DEF IInv, PInv, RowIs, Written, Recorded, Settled
  <2>2. Flows[i].policy \in Verdicts
    BY CaseFacts DEF IInv, TypeOK, Assertion
  <2>. QED BY <2>1, <2>2 DEF Patient, Opens, Verdicts
<1>. QED BY <1>1, <1>2, <1>3, Inductive, PTL DEF Spec
-----------------------------------------------------------------------------
(* Nobody is stuck *)

\* Who holds a place, and whom wg.Wait waits for, has still to give it back.
Tokens ==
  /\ Serial => sem = {} /\ wg = {}
  /\ \A i \in sem : at[i] \in Holding
  /\ \A i \in wg : at[i] \in Holding \cup {"released"}

\* The guards of the actions: the loop has a place or its turn, or wg.Wait returns, ...
CanLaunch ==
  /\ pc = "launch" /\ next \in Assertions
  /\ IF Serial THEN \A i \in 1 .. next - 1 : at[i] = "ended" ELSE Cardinality(sem) < Workers
CanCollect ==
  /\ pc = "launch" /\ next \notin Assertions
  /\ IF Serial THEN \A i \in Assertions : at[i] = "ended" ELSE wg = {}

\* ... or a probe has a step, whatever the network does.
CanProbe(i) == at[i] \in {"ready", "exec", "pause", "settled", "written", "released"}

NobodyStuck == pc # "done" => CanLaunch \/ CanCollect \/ pc = "report" \/ \E i \in Assertions : CanProbe(i)

\* Places are given back.
LEMMA TokensKept == IInv /\ Tokens /\ [Next]_vars => Tokens'
<1>. SUFFICES ASSUME IInv, Tokens, [Next]_vars PROVE Tokens'
  OBVIOUS
<1>a. /\ sem \subseteq Assertions /\ wg \subseteq Assertions
      /\ at \in [Assertions -> {"unborn", "ready", "exec", "pause", "settled", "written",
                                "released", "ended"}]
  BY DEF IInv, TypeOK
<1>b. Serial' = Serial
  BY DEF Next, Work, Cluster, Probe, Finished, vars, Serial, Workers, Launch, Collect, Report, Begin,
         Attempt, Again, Write, Release, Done, Converge, Vanish
<1>c. Serial => sem = {} /\ wg = {}
  BY DEF Tokens
<1>1. CASE Launch
  BY <1>1, <1>a, <1>b, <1>c DEF Launch, Tokens, Holding
<1>2. CASE Collect \/ Report
  BY <1>2, <1>b, <1>c DEF Collect, Report, Tokens, probing
<1>3. ASSUME NEW i \in Assertions, Begin(i)
      PROVE  Tokens'
  <2>1. /\ sem' = sem /\ wg' = wg /\ at[i] = "ready"
        /\ at' = [at EXCEPT ![i] = "exec"] \/ at' = [at EXCEPT ![i] = "settled"]
    BY <1>3, <1>b, <1>c DEF Begin, Settle
  <2>. QED BY <1>a, <1>b, <1>c, <2>1 DEF Tokens, Holding
<1>4. ASSUME NEW i \in Assertions, Attempt(i)
      PROVE  Tokens'
  <2>1. /\ sem' = sem /\ wg' = wg /\ at[i] = "exec"
        /\ at' = [at EXCEPT ![i] = "pause"] \/ at' = [at EXCEPT ![i] = "settled"]
    BY <1>4 DEF Attempt, Settle, Unreached
  <2>. QED BY <1>a, <1>b, <1>c, <2>1 DEF Tokens, Holding
<1>5. ASSUME NEW i \in Assertions, Again(i)
      PROVE  Tokens'
  BY <1>5, <1>a, <1>b, <1>c DEF Again, Tokens, Holding
<1>6. ASSUME NEW i \in Assertions, Write(i)
      PROVE  Tokens'
  BY <1>6, <1>a, <1>b, <1>c DEF Write, Tokens, Holding
<1>7. ASSUME NEW i \in Assertions, Release(i)
      PROVE  Tokens'
  BY <1>7, <1>a, <1>b, <1>c DEF Release, Tokens, Holding
<1>8. ASSUME NEW i \in Assertions, Done(i)
      PROVE  Tokens'
  BY <1>8, <1>a, <1>b, <1>c DEF Done, Tokens, Holding
<1>9. CASE Cluster \/ UNCHANGED vars
  BY <1>9, <1>b, <1>c DEF Cluster, Converge, Vanish, probing, vars, Tokens
<1>. QED BY <1>1, <1>2, <1>3, <1>4, <1>5, <1>6, <1>7, <1>8, <1>9 DEF Next, Work, Finished, Probe

\* NobodyStuck: until the case is done, the loop or some probe can go on, whatever the number
\* of assertions and of places: nobody waits for a place that is not given back.
THEOREM ProbesNeverStuck == Spec => []NobodyStuck
<1>1. Init => Tokens
  BY DEF Init, Tokens
<1>2. IInv /\ Tokens => NobodyStuck
  <2>. SUFFICES ASSUME IInv, Tokens, pc # "done", pc # "report", \A i \in Assertions : ~CanProbe(i)
                PROVE  CanLaunch \/ CanCollect
    BY DEF NobodyStuck
  <2>1. /\ Len(Flows) \in Nat /\ Workers \in Nat /\ Workers >= 1
        /\ \A i \in Assertions : i \in Nat
    BY CaseFacts DEF IInv, TypeOK
  <2>2. /\ sem \subseteq Assertions /\ wg \subseteq Assertions /\ pc = "launch"
        /\ next \in 1 .. Len(Flows) + 1
    BY DEF IInv, TypeOK
  <2>3. \A i \in Assertions : at[i] \in {"unborn", "ended"}
    BY DEF IInv, TypeOK, CanProbe
  <2>4. sem = {} /\ wg = {}
    BY <2>2, <2>3 DEF Tokens, Holding
  <2>5. \A i \in Assertions : i < next => at[i] = "ended"
    BY <2>1, <2>2, <2>3 DEF IInv, Pool
  <2>6. CASE next \in Assertions
    <3>1. \A i \in 1 .. next - 1 : i \in Assertions /\ i < next
      BY <2>1, <2>2, <2>6 DEF Assertions
    <3>2. Cardinality(sem) < Workers
      BY <2>1, <2>4, FS_EmptySet
    <3>. QED BY <2>2, <2>5, <2>6, <3>1, <3>2 DEF CanLaunch
  <2>7. CASE next \notin Assertions
    <3>1. \A i \in Assertions : i < next
      BY <2>1, <2>2, <2>7 DEF Assertions
    <3>. QED BY <2>2, <2>4, <2>5, <2>7, <3>1 DEF CanCollect
  <2>. QED BY <2>6, <2>7
<1>. QED BY <1>1, <1>2, TokensKept, Inductive, PTL DEF Spec
-----------------------------------------------------------------------------
(* Every step is progress *)

\* How far a probe is that is at a place after so many attempts, and how far runCase is.
StageOf(place, n) ==
  CASE place = "unborn"   -> 0
    [] place = "ready"    -> 1
    [] place = "exec"     -> 2 * n
    [] place = "pause"    -> 2 * n + 1
    [] place = "settled"  -> 2 * Attempts + 2
    [] place = "written"  -> 2 * Attempts + 3
    [] place = "released" -> 2 * Attempts + 4
    [] OTHER              -> 2 * Attempts + 5

Stage(i) == StageOf(at[i], tries[i])
Phase    == CASE pc = "launch" -> 0 [] pc = "report" -> 1 [] OTHER -> 2

\* No step takes a probe or the case back, and each step of the harness takes one of them on.
Advances ==
  /\ Phase <= Phase' /\ \A i \in Assertions : Stage(i) <= Stage(i)'
  /\ Work => Phase < Phase' \/ \E i \in Assertions : Stage(i) < Stage(i)'

\* Stages are bounded.
LEMMA StageBound == IInv => Phase \in 0 .. 2 /\ \A i \in Assertions : Stage(i) \in 0 .. 2 * Attempts + 5
<1>. SUFFICES ASSUME IInv PROVE Phase \in 0 .. 2 /\ \A i \in Assertions : Stage(i) \in 0 .. 2 * Attempts + 5
  OBVIOUS
<1>1. \A i \in Assertions :
        /\ tries[i] \in 0 .. 4
        /\ at[i] \in {"unborn", "ready", "exec", "pause", "settled", "written", "released", "ended"}
  BY DEF IInv, TypeOK, Attempts
<1>2. Phase \in 0 .. 2
  BY DEF IInv, TypeOK, Phase
<1>. QED BY <1>1, <1>2 DEF Stage, StageOf, Attempts

\* A step that takes the probe of i to a place, after n attempts, that is further on.
Moves(i, place, n) ==
  /\ pc' = pc /\ at' = [at EXCEPT ![i] = place] /\ tries' = [tries EXCEPT ![i] = n]
  /\ StageOf(place, n) \in Int /\ Stage(i) < StageOf(place, n)

\* Each action moves one probe, or the loop, and nothing else.
LEMMA StepAdvances == IInv /\ [Next]_vars => [Advances]_vars
<1>. SUFFICES ASSUME IInv, Next PROVE Advances
  BY DEF vars
<1>0. Assertions' = Assertions /\ Phase \in 0 .. 2
  <2>1. case' = case
    BY DEF Next, Work, Cluster, Probe, Finished, vars, Launch, Collect, Report, Begin, Attempt, Again,
           Write, Release, Done, Converge, Vanish
  <2>. QED BY <2>1, StageBound DEF Assertions, Flows
<1>a. /\ at \in [Assertions -> {"unborn", "ready", "exec", "pause", "settled", "written",
                                "released", "ended"}]
      /\ tries \in [Assertions -> 0 .. 4]
  BY DEF IInv, TypeOK, Attempts
<1>b. \A i \in Assertions : at[i] = "pause" => tries[i] < 4
  BY DEF IInv, Knows, Attempts
<1>c. /\ Assertions \subseteq Nat /\ next \in Nat
      /\ \A i \in Assertions : at[i] = "unborn" <=> i >= next
  BY CaseFacts DEF IInv, TypeOK, Pool
<1>d. \A i \in Assertions : Stage(i) \in Int
  BY StageBound
<1>e. ASSUME Phase' \in Int, Phase <= Phase', at' = at, tries' = tries, Work => Phase < Phase'
      PROVE  Advances
  <2>1. \A j \in Assertions : Stage(j)' = Stage(j)
    BY <1>e DEF Stage
  <2>. QED BY <1>0, <1>d, <1>e, <2>1 DEF Advances
<1>f. ASSUME NEW i \in Assertions, NEW place, NEW n, Moves(i, place, n)
      PROVE  Advances
  <2>1. \A j \in Assertions \ {i} : Stage(j)' = Stage(j)
    BY <1>f, <1>a DEF Moves, Stage
  <2>2. Stage(i)' = StageOf(place, n)
    BY <1>f, <1>a DEF Moves, Stage
  <2>3. Phase' = Phase
    BY <1>f DEF Moves, Phase
  <2>. QED BY <1>0, <1>d, <1>f, <2>1, <2>2, <2>3 DEF Moves, Advances
<1>g. \A i \in Assertions : tries = [tries EXCEPT ![i] = tries[i]]
  BY <1>a
<1>1. CASE Launch
  <2>1. next \in Assertions /\ pc' = pc /\ tries' = tries /\ at' = [at EXCEPT ![next] = "ready"]
    BY <1>1 DEF Launch
  <2>2. StageOf("ready", tries[next]) = 1 /\ Stage(next) = 0
    BY <1>c, <2>1 DEF Stage, StageOf
  <2>3. Moves(next, "ready", tries[next])
    BY <1>g, <2>1, <2>2 DEF Moves
  <2>. QED BY <1>f, <2>1, <2>3
<1>2. CASE Collect
  <2>1. pc = "launch" /\ pc' = "report" /\ at' = at /\ tries' = tries
    BY <1>2 DEF Collect, probing
  <2>. QED BY <1>e, <2>1 DEF Phase
<1>3. CASE Report
  <2>1. pc = "report" /\ pc' = "done" /\ at' = at /\ tries' = tries
    BY <1>3 DEF Report, probing
  <2>. QED BY <1>e, <2>1 DEF Phase
<1>4. ASSUME NEW i \in Assertions, Begin(i)
      PROVE  Advances
  <2>1. /\ pc' = pc /\ at[i] = "ready"
        /\ \/ at' = [at EXCEPT ![i] = "settled"] /\ tries' = tries
           \/ at' = [at EXCEPT ![i] = "exec"] /\ tries' = [tries EXCEPT ![i] = 1]
    BY <1>4 DEF Begin, Settle
  <2>2. Stage(i) = 1 /\ StageOf("exec", 1) = 2 /\ StageOf("settled", tries[i]) = 10
    BY <2>1 DEF Stage, StageOf, Attempts
  <2>3. Moves(i, "settled", tries[i]) \/ Moves(i, "exec", 1)
    BY <1>g, <2>1, <2>2 DEF Moves
  <2>. QED BY <1>f, <2>3
<1>5. ASSUME NEW i \in Assertions, Attempt(i)
      PROVE  Advances
  <2>1. /\ pc' = pc /\ at[i] = "exec" /\ tries' = tries
        /\ at' = [at EXCEPT ![i] = "settled"] \/ at' = [at EXCEPT ![i] = "pause"]
    BY <1>5 DEF Attempt, Settle, Unreached
  <2>2. /\ Stage(i) = 2 * tries[i] /\ StageOf("pause", tries[i]) = 2 * tries[i] + 1
        /\ StageOf("settled", tries[i]) = 10 /\ tries[i] \in 0 .. 4
    BY <1>a, <2>1 DEF Stage, StageOf, Attempts
  <2>3. Moves(i, "settled", tries[i]) \/ Moves(i, "pause", tries[i])
    BY <1>g, <2>1, <2>2 DEF Moves
  <2>. QED BY <1>f, <2>3
<1>6. ASSUME NEW i \in Assertions, Again(i)
      PROVE  Advances
  <2>1. /\ pc' = pc /\ at[i] = "pause" /\ at' = [at EXCEPT ![i] = "exec"]
        /\ tries' = [tries EXCEPT ![i] = tries[i] + 1]
    BY <1>6, <1>a DEF Again
  <2>2. /\ Stage(i) = 2 * tries[i] + 1 /\ StageOf("exec", tries[i] + 1) = 2 * (tries[i] + 1)
        /\ tries[i] \in 0 .. 4
    BY <1>a, <2>1 DEF Stage, StageOf
  <2>3. Moves(i, "exec", tries[i] + 1)
    BY <2>1, <2>2 DEF Moves
  <2>. QED BY <1>f, <2>3
<1>7. ASSUME NEW i \in Assertions, Write(i)
      PROVE  Advances
  <2>1. /\ pc' = pc /\ at[i] = "settled" /\ tries' = tries
        /\ at' = [at EXCEPT ![i] = "ended"] \/ at' = [at EXCEPT ![i] = "written"]
    BY <1>7 DEF Write
  <2>2. Stage(i) = 10 /\ StageOf("written", tries[i]) = 11 /\ StageOf("ended", tries[i]) = 13
    BY <2>1 DEF Stage, StageOf, Attempts
  <2>3. Moves(i, "ended", tries[i]) \/ Moves(i, "written", tries[i])
    BY <1>g, <2>1, <2>2 DEF Moves
  <2>. QED BY <1>f, <2>3
<1>8. ASSUME NEW i \in Assertions, Release(i)
      PROVE  Advances
  <2>1. pc' = pc /\ at[i] = "written" /\ tries' = tries /\ at' = [at EXCEPT ![i] = "released"]
    BY <1>8 DEF Release
  <2>2. Stage(i) = 11 /\ StageOf("released", tries[i]) = 12
    BY <2>1 DEF Stage, StageOf, Attempts
  <2>3. Moves(i, "released", tries[i])
    BY <1>g, <2>1, <2>2 DEF Moves
  <2>. QED BY <1>f, <2>3
<1>9. ASSUME NEW i \in Assertions, Done(i)
      PROVE  Advances
  <2>1. pc' = pc /\ at[i] = "released" /\ tries' = tries /\ at' = [at EXCEPT ![i] = "ended"]
    BY <1>9 DEF Done
  <2>2. Stage(i) = 12 /\ StageOf("ended", tries[i]) = 13
    BY <2>1 DEF Stage, StageOf, Attempts
  <2>3. Moves(i, "ended", tries[i])
    BY <1>g, <2>1, <2>2 DEF Moves
  <2>. QED BY <1>f, <2>3
<1>10. CASE Cluster /\ ~Work
  BY <1>0, <1>10, <1>e DEF Cluster, Converge, Vanish, probing, Phase
<1>11. CASE Finished /\ ~Work
  BY <1>0, <1>11, <1>e DEF Finished, vars, probing, Phase
<1>. QED
  BY <1>1, <1>2, <1>3, <1>4, <1>5, <1>6, <1>7, <1>8, <1>9, <1>10, <1>11 DEF Next, Work, Probe

\* Advances: whatever the network does, each step of the harness takes the case or a probe on by one
\* of at most 2 * Attempts + 5 stages, and no step takes one back.  With NobodyStuck, a harness
\* whose steps are taken ends every case (the part of AllProbesEnd that is not fairness).
THEOREM ProbesAdvance == Spec => [][Advances]_vars /\ []\A i \in Assertions : Stage(i) \in 0 .. 2 * Attempts + 5
<1>1. IInv => \A i \in Assertions : Stage(i) \in 0 .. 2 * Attempts + 5
  BY StageBound
<1>. QED BY <1>1, StepAdvances, Inductive, PTL DEF Spec
=============================================================================
