------------------------ MODULE CaseLifecycleProofs ------------------------
(***************************************************************************)
(* What holds of every set of end-to-end cases, whatever the calls that    *)
(* fail and the processes that die: the namespaces of the system stay, a   *)
(* HostEndpoint is never left without its allow rules, and what is probed  *)
(* is what the engine was asked about.                                     *)
(***************************************************************************)
EXTENDS CaseLifecycle, TLAPS

\* The steps of a case, by what they do.
Repairing  == RepairList \/ RepairHeps \/ RepairPool \/ RepairFlush
Recovering == Reap \/ ReapHeps \/ HealthGate \/ Bounce \/ Recheck
Preparing  == PreClean \/ Ensure \/ StartObservers
Applying   == ApplyBase \/ ApplyNetsets \/ ApplyPolicy
Attaching  == NarrowFailsafes \/ ApplyPool \/ ApplyHeps
Probing    == Settle \/ Predict \/ Probe
Detaching  == Cleanup \/ TdHeps \/ TdFlush
Deleting   == TdPolicy \/ TdPool \/ TdNetsets \/ TdNamespaces

LEMMA StepsOfACase ==
  Next <=> \/ StartCase \/ Crash
           \/ Repairing \/ Recovering \/ Preparing \/ Applying \/ Attaching \/ Probing
           \/ Detaching \/ Deleting
BY DEF Next, Progress, Repairing, Recovering, Preparing, Applying, Attaching, Probing,
       Detaching, Deleting

\* A case is known while it runs.
CaseKnown == pc # "idle" => case \in Cases
-----------------------------------------------------------------------------
(* Types *)

ClusterOK ==
  /\ ns \subseteq Namespaces /\ policies \subseteq AllPolicies
  /\ netsets \subseteq Names /\ heps \subseteq Names /\ observers \subseteq Names
FlagsOK ==
  /\ pool \in BOOLEAN /\ narrowed \in BOOLEAN /\ stale \in BOOLEAN /\ failed \in BOOLEAN
  /\ keep \in Keep /\ lost \in BOOLEAN
PlaceOK ==
  /\ pc \in Steps /\ case \in Cases \cup {NoCase}
  /\ after \in {"reap", "bounce", "recheck"}
ProcessOK ==
  /\ todo \subseteq Namespaces /\ owned \subseteq Namespaces
  /\ applied \subseteq {"netset", "policy", "pool", "hep"}
  /\ cleanups \subseteq {"observers", "teardown"}
BoundsOK == faults \in 0..MaxFaults /\ crashes \in 0..MaxCrashes /\ started \in 0..MaxCases

TInv == ClusterOK /\ FlagsOK /\ PlaceOK /\ ProcessOK /\ BoundsOK /\ CaseKnown

\* What a case names is in the sets of names.
LEMMA CaseNames ==
  ASSUME NEW c \in Cases
  PROVE  c.ns \subseteq Namespaces /\ c.policies \subseteq AllPolicies /\ c.name \in Names
BY DEF Namespaces, AllPolicies, Names
\* The cluster holds only what cases name.
LEMMA ClusterOKKept ==
  ASSUME TInv, [Next]_vars
  PROVE  ClusterOK'
<1> USE CaseNames DEF TInv, ClusterOK, ProcessOK, CaseKnown, Works
<1>1. CASE StartCase
  BY <1>1 DEF StartCase, cluster
<1>2. CASE Crash
  BY <1>2 DEF Crash, cluster
<1>3. CASE Repairing
  BY <1>3 DEF Repairing, RepairList, RepairHeps, RepairPool, RepairFlush, cluster, bounds
<1>4. CASE Recovering
  BY <1>4 DEF Recovering, Reap, ReapHeps, HealthGate, Bounce, Recheck, cluster, bounds
<1>5. CASE Preparing
  <2>1. CASE PreClean
    BY <2>1 DEF PreClean, Looped, Without
  <2>2. CASE Ensure
    BY <2>2 DEF Ensure, Looped
  <2>3. CASE StartObservers
    BY <2>3 DEF StartObservers
  <2> QED BY <1>5, <2>1, <2>2, <2>3 DEF Preparing
<1>6. CASE Applying
  BY <1>6 DEF Applying, ApplyBase, ApplyNetsets, ApplyPolicy, cluster, bounds
<1>7. CASE Attaching
  BY <1>7 DEF Attaching, NarrowFailsafes, ApplyPool, ApplyHeps, cluster, bounds
<1>8. CASE Probing
  BY <1>8 DEF Probing, Settle, Predict, Probe, cluster, bounds
<1>9. CASE Detaching
  BY <1>9 DEF Detaching, Cleanup, TdHeps, TdFlush, Tolerated, Lost, Kept, cluster, bounds
<1>10. CASE Deleting
  BY <1>10 DEF Deleting, TdPolicy, TdPool, TdNetsets, TdNamespaces, Looped, Tolerated, Lost, Undeleted, Without, cluster, bounds
<1>11. CASE UNCHANGED vars
  BY <1>11 DEF vars, cluster, process, bounds
<1> QED BY <1>1, <1>2, <1>3, <1>4, <1>5, <1>6, <1>7, <1>8, <1>9, <1>10, <1>11, StepsOfACase

\* Flags stay flags.
LEMMA FlagsOKKept ==
  ASSUME TInv, [Next]_vars
  PROVE  FlagsOK'
<1> USE CasesAssumption DEF TInv, FlagsOK, Go, Works, Fails, Fatal
<1>1. CASE StartCase
  BY <1>1 DEF StartCase, cluster
<1>2. CASE Crash
  BY <1>2 DEF Crash, cluster
<1>3. CASE Repairing
  BY <1>3 DEF Repairing, RepairList, RepairHeps, RepairPool, RepairFlush, cluster, bounds
<1>4. CASE Recovering
  BY <1>4 DEF Recovering, Reap, ReapHeps, HealthGate, Bounce, Recheck, cluster, bounds
<1>5. CASE Preparing
  BY <1>5 DEF Preparing, PreClean, Ensure, StartObservers, Looped, cluster, bounds
<1>6. CASE Applying
  BY <1>6 DEF Applying, ApplyBase, ApplyNetsets, ApplyPolicy, cluster, bounds
<1>7. CASE Attaching
  BY <1>7 DEF Attaching, NarrowFailsafes, ApplyPool, ApplyHeps, cluster, bounds
<1>8. CASE Probing
  BY <1>8 DEF Probing, Settle, Predict, Probe, cluster, bounds
<1>9. CASE Detaching
  BY <1>9 DEF Detaching, Cleanup, TdHeps, TdFlush, Tolerated, Lost, Kept, cluster, bounds
<1>10. CASE Deleting
  BY <1>10 DEF Deleting, TdPolicy, TdPool, TdNetsets, TdNamespaces, Looped, Tolerated, Lost, Undeleted, Without, cluster, bounds
<1>11. CASE UNCHANGED vars
  BY <1>11 DEF vars, cluster, process, bounds
<1> QED BY <1>1, <1>2, <1>3, <1>4, <1>5, <1>6, <1>7, <1>8, <1>9, <1>10, <1>11, StepsOfACase

\* Control stays in the steps there are, with a case at hand.
LEMMA PlaceOKKept ==
  ASSUME PlaceOK, [Next]_vars
  PROVE  PlaceOK'
<1> USE CasesAssumption DEF PlaceOK, Steps, Go, Works, Fails, Fatal
<1>1. CASE StartCase
  BY <1>1 DEF StartCase, cluster
<1>2. CASE Crash
  BY <1>2 DEF Crash, cluster
<1>3. CASE Repairing
  BY <1>3 DEF Repairing, RepairList, RepairHeps, RepairPool, RepairFlush, cluster, bounds
<1>4. CASE Recovering
  BY <1>4 DEF Recovering, Reap, ReapHeps, HealthGate, Bounce, Recheck, cluster, bounds
<1>5. CASE Preparing
  BY <1>5 DEF Preparing, PreClean, Ensure, StartObservers, Looped, cluster, bounds
<1>6. CASE Applying
  BY <1>6 DEF Applying, ApplyBase, ApplyNetsets, ApplyPolicy, cluster, bounds
<1>7. CASE Attaching
  BY <1>7 DEF Attaching, NarrowFailsafes, ApplyPool, ApplyHeps, cluster, bounds
<1>8. CASE Probing
  BY <1>8 DEF Probing, Settle, Predict, Probe, cluster, bounds
<1>9. CASE Detaching
  BY <1>9 DEF Detaching, Cleanup, TdHeps, TdFlush, Tolerated, Lost, Kept, cluster, bounds
<1>10. CASE Deleting
  BY <1>10 DEF Deleting, TdPolicy, TdPool, TdNetsets, TdNamespaces, Looped, Tolerated, Lost, Undeleted, Without, cluster, bounds
<1>11. CASE UNCHANGED vars
  BY <1>11 DEF vars, cluster, process, bounds
<1> QED BY <1>1, <1>2, <1>3, <1>4, <1>5, <1>6, <1>7, <1>8, <1>9, <1>10, <1>11, StepsOfACase

\* What the harness records is of the kinds it knows.
LEMMA ProcessOKKept ==
  ASSUME TInv, [Next]_vars
  PROVE  ProcessOK'
<1> USE CaseNames DEF TInv, ProcessOK, CaseKnown, Go, Works, Fails, Fatal
<1>1. CASE StartCase
  BY <1>1 DEF StartCase, cluster
<1>2. CASE Crash
  BY <1>2 DEF Crash, cluster
<1>3. CASE Repairing
  BY <1>3 DEF Repairing, RepairList, RepairHeps, RepairPool, RepairFlush, cluster, bounds
<1>4. CASE Recovering
  BY <1>4 DEF Recovering, Reap, ReapHeps, HealthGate, Bounce, Recheck, cluster, bounds
<1>5. CASE Preparing
  BY <1>5 DEF Preparing, PreClean, Ensure, StartObservers, Looped, cluster, bounds
<1>6. CASE Applying
  BY <1>6 DEF Applying, ApplyBase, ApplyNetsets, ApplyPolicy, cluster, bounds
<1>7. CASE Attaching
  BY <1>7 DEF Attaching, NarrowFailsafes, ApplyPool, ApplyHeps, cluster, bounds
<1>8. CASE Probing
  BY <1>8 DEF Probing, Settle, Predict, Probe, cluster, bounds
<1>9. CASE Detaching
  BY <1>9 DEF Detaching, Cleanup, TdHeps, TdFlush, Tolerated, Lost, Kept, cluster, bounds
<1>10. CASE Deleting
  BY <1>10 DEF Deleting, TdPolicy, TdPool, TdNetsets, TdNamespaces, Looped, Tolerated, Lost, Undeleted, Without, cluster, bounds
<1>11. CASE UNCHANGED vars
  BY <1>11 DEF vars, cluster, process, bounds
<1> QED BY <1>1, <1>2, <1>3, <1>4, <1>5, <1>6, <1>7, <1>8, <1>9, <1>10, <1>11, StepsOfACase

\* A call counts as a fault when it fails, and no call does more.
LEMMA BoundsOKKept ==
  ASSUME BoundsOK, [Next]_vars
  PROVE  BoundsOK'
<1> DEFINE Counted == faults' = faults \/ (faults < MaxFaults /\ faults' = faults + 1)
           Called  == Counted /\ UNCHANGED <<crashes, started>>
<1>1. CASE StartCase
  BY <1>1, CasesAssumption DEF StartCase, BoundsOK
<1>2. CASE Crash
  BY <1>2, CasesAssumption DEF Crash, BoundsOK
<1>3. /\ faults' = faults => Counted
      /\ Works => Counted
      /\ \A call : Fails(call) => Counted
  BY DEF Works, Fails
<1> HIDE DEF Counted
<1>4. Repairing => Called
  BY <1>3 DEF Repairing, RepairList, RepairHeps, RepairPool, RepairFlush, bounds
<1>5. Recovering => Called
  BY <1>3 DEF Recovering, Reap, ReapHeps, HealthGate, Bounce, Recheck, bounds
<1>6. Preparing => Called
  BY <1>3 DEF Preparing, PreClean, Ensure, StartObservers, Looped, bounds
<1>7. Applying => Called
  BY <1>3 DEF Applying, ApplyBase, ApplyNetsets, ApplyPolicy, bounds
<1>8. Attaching => Called
  BY <1>3 DEF Attaching, NarrowFailsafes, ApplyPool, ApplyHeps, bounds
<1>9. Probing => Called
  BY <1>3 DEF Probing, Settle, Predict, Probe, bounds
<1>10. Detaching => Called
  BY <1>3 DEF Detaching, Cleanup, TdHeps, TdFlush, Tolerated, Lost, Kept, bounds
<1>11. Deleting => Called
  BY <1>3 DEF Deleting, TdPolicy, TdPool, TdNetsets, TdNamespaces, Looped, Tolerated, Lost, bounds
<1>12. UNCHANGED vars => Called
  BY DEF vars, bounds, Counted
<1>13. Called => BoundsOK'
  BY CasesAssumption DEF BoundsOK, Counted
<1> QED BY <1>1, <1>2, <1>4, <1>5, <1>6, <1>7, <1>8, <1>9, <1>10, <1>11, <1>12, <1>13, StepsOfACase

\* Only an idle harness is without a case.
LEMMA CaseKnownKept ==
  ASSUME CaseKnown, [Next]_vars
  PROVE  CaseKnown'
<1> USE CasesAssumption DEF CaseKnown, Go, Works, Fails, Fatal
<1>1. CASE StartCase
  BY <1>1 DEF StartCase, cluster
<1>2. CASE Crash
  BY <1>2 DEF Crash, cluster
<1>3. CASE Repairing
  BY <1>3 DEF Repairing, RepairList, RepairHeps, RepairPool, RepairFlush, cluster, bounds
<1>4. CASE Recovering
  BY <1>4 DEF Recovering, Reap, ReapHeps, HealthGate, Bounce, Recheck, cluster, bounds
<1>5. CASE Preparing
  BY <1>5 DEF Preparing, PreClean, Ensure, StartObservers, Looped, cluster, bounds
<1>6. CASE Applying
  BY <1>6 DEF Applying, ApplyBase, ApplyNetsets, ApplyPolicy, cluster, bounds
<1>7. CASE Attaching
  BY <1>7 DEF Attaching, NarrowFailsafes, ApplyPool, ApplyHeps, cluster, bounds
<1>8. CASE Probing
  BY <1>8 DEF Probing, Settle, Predict, Probe, cluster, bounds
<1>9. CASE Detaching
  BY <1>9 DEF Detaching, Cleanup, TdHeps, TdFlush, Tolerated, Lost, Kept, cluster, bounds
<1>10. CASE Deleting
  BY <1>10 DEF Deleting, TdPolicy, TdPool, TdNetsets, TdNamespaces, Looped, Tolerated, Lost, Undeleted, Without, cluster, bounds
<1>11. CASE UNCHANGED vars
  BY <1>11 DEF vars, cluster, process, bounds
<1> QED BY <1>1, <1>2, <1>3, <1>4, <1>5, <1>6, <1>7, <1>8, <1>9, <1>10, <1>11, StepsOfACase


LEMMA InitTInv == Init => TInv
<1> SUFFICES ASSUME Init PROVE TInv
  OBVIOUS
<1>1. ClusterOK /\ ProcessOK
  BY DEF Init, ClusterOK, ProcessOK, Namespaces
<1>2. FlagsOK
  BY DEF Init, FlagsOK
<1>3. PlaceOK /\ CaseKnown
  BY DEF Init, PlaceOK, CaseKnown, Steps
<1>4. BoundsOK
  BY CasesAssumption DEF Init, BoundsOK
<1> QED BY <1>1, <1>2, <1>3, <1>4 DEF TInv

LEMMA NextTInv == TInv /\ [Next]_vars => TInv'
<1> SUFFICES ASSUME TInv, [Next]_vars PROVE TInv'
  OBVIOUS
<1>1. BoundsOK'
  BY BoundsOKKept DEF TInv
<1> QED BY <1>1, ClusterOKKept, FlagsOKKept, PlaceOKKept, ProcessOKKept, CaseKnownKept DEF TInv

\* Every set of cases keeps the shape of the cluster and of the harness.
THEOREM CaseTypeOK == Spec => []TypeOK
<1>1. TInv => TypeOK
  BY DEF TInv, ClusterOK, FlagsOK, PlaceOK, ProcessOK, BoundsOK, TypeOK
<1> QED BY <1>1, InitTInv, NextTInv, PTL DEF Spec
-----------------------------------------------------------------------------
(* The namespaces of the system *)

\* A case owns the namespaces it made, and tears down no other: those of the system
\* are never missing, so it never makes one.
OwnedOnly ==
  /\ Protected \subseteq ns
  /\ owned \cap Protected = {}
  /\ pc = "tdNamespaces" => todo \subseteq owned

\* No step takes a namespace of the system or makes it the case's own.
LEMMA OwnedOnlyKept ==
  ASSUME PlaceOK, OwnedOnly, [Next]_vars
  PROVE  OwnedOnly'
<1> USE DEF PlaceOK, OwnedOnly,
            Go, Fatal, Works
<1>1. CASE StartCase
  BY <1>1 DEF StartCase, cluster
<1>2. CASE Crash
  BY <1>2 DEF Crash, cluster
<1>3. CASE Repairing
  BY <1>3
  DEF Repairing, RepairList, RepairHeps, RepairPool, RepairFlush, cluster, bounds
<1>4. CASE Recovering
  BY <1>4
  DEF Recovering, Reap, ReapHeps, HealthGate, Bounce, Recheck, cluster, bounds
<1>5. CASE Preparing
  BY <1>5
  DEF Preparing, PreClean, Ensure, StartObservers, Looped, cluster, bounds
<1>6. CASE Applying
  BY <1>6
  DEF Applying, ApplyBase, ApplyNetsets, ApplyPolicy, cluster, bounds
<1>7. CASE Attaching
  BY <1>7
  DEF Attaching, NarrowFailsafes, ApplyPool, ApplyHeps, cluster, bounds
<1>8. CASE Probing
  BY <1>8
  DEF Probing, Settle, Predict, Probe, cluster, bounds
<1>9. CASE Detaching
  BY <1>9
  DEF Detaching, Cleanup, TdHeps, TdFlush, Tolerated, Lost, Kept, cluster, bounds
<1>10. CASE Deleting
  BY <1>10
  DEF Deleting, TdPolicy, TdPool, TdNetsets, TdNamespaces, Looped, Tolerated, Lost, cluster, bounds
<1>11. CASE UNCHANGED vars
  BY <1>11 DEF vars, cluster, process, bounds
<1> QED BY <1>1, <1>2, <1>3, <1>4, <1>5, <1>6, <1>7, <1>8, <1>9, <1>10, <1>11, StepsOfACase

\* No sequence of cases, failures and crashes deletes a namespace of the system.
THEOREM CaseProtectedKept == Spec => []ProtectedKept
<1>1. Init => OwnedOnly
  BY DEF Init, OwnedOnly
<1>2. PlaceOK /\ OwnedOnly /\ [Next]_vars => (PlaceOK /\ OwnedOnly)'
  BY PlaceOKKept, OwnedOnlyKept
<1>3. Init => PlaceOK
  BY InitTInv DEF TInv
<1>4. OwnedOnly => ProtectedKept
  BY DEF OwnedOnly, ProtectedKept
<1> QED BY <1>1, <1>2, <1>3, <1>4, PTL DEF Spec
-----------------------------------------------------------------------------
(* HostEndpoints and their allow rules *)

\* Where the harness has just seen, or made, every HostEndpoint go.
Quiet ==
  {"repairPool", "repairFlush", "reap", "reapHeps", "gate", "bounce", "reapAgain",
   "reapHepsAgain", "recheck", "preclean", "ensure", "observers", "base", "netsets",
   "policy", "narrow", "pool", "heps", "tdFlush", "tdPolicy", "tdTier", "tdPool",
   "tdNetsets", "tdNamespaces"}

NoHeps == pc \in Quiet => heps = {}

\* Until the observers have been started a case registers no cleanup.
NothingRegistered ==
  pc \in {"repair", "repairHeps", "repairPool", "repairFlush", "reap", "reapHeps", "gate",
          "bounce", "reapAgain", "reapHepsAgain", "recheck", "preclean", "ensure",
          "observers"} => cleanups = {}

\* From then on the HostEndpoints there are, if any, are the case's own.
OwnHeps ==
  pc \in {"settle", "predict", "probe", "tdHeps"} \/ (pc = "cleanup" /\ "teardown" \in cleanups)
    => heps \subseteq {case.name} /\ ("hep" \notin applied => heps = {})

AllowRules == pc \in {"narrow", "pool", "heps"} => case.policies \subseteq policies

HInv ==
  PlaceOK /\ CaseKnown /\ NoHeps /\ NothingRegistered /\ OwnHeps /\ AllowRules /\ HepNeverStranded

\* What was seen gone stays gone until this case attaches its own.
LEMMA NoHepsKept ==
  ASSUME HInv, [Next]_vars, "list" \notin Faulty
  PROVE  NoHeps'
<1> USE DEF HInv, NoHeps, OwnHeps, Quiet,
            Go, Fatal, Works, Fails
<1>1. CASE StartCase
  BY <1>1 DEF StartCase, cluster
<1>2. CASE Crash
  BY <1>2 DEF Crash, cluster
<1>3. CASE Repairing
  BY <1>3
  DEF Repairing, RepairList, RepairHeps, RepairPool, RepairFlush, cluster, bounds
<1>4. CASE Recovering
  BY <1>4
  DEF Recovering, Reap, ReapHeps, HealthGate, Bounce, Recheck, cluster, bounds
<1>5. CASE Preparing
  BY <1>5
  DEF Preparing, PreClean, Ensure, StartObservers, Looped, cluster, bounds
<1>6. CASE Applying
  BY <1>6
  DEF Applying, ApplyBase, ApplyNetsets, ApplyPolicy, cluster, bounds
<1>7. CASE Attaching
  BY <1>7
  DEF Attaching, NarrowFailsafes, ApplyPool, ApplyHeps, cluster, bounds
<1>8. CASE Probing
  BY <1>8
  DEF Probing, Settle, Predict, Probe, cluster, bounds
<1>9. CASE Detaching
  BY <1>9
  DEF Detaching, Cleanup, TdHeps, TdFlush, Tolerated, Lost, Kept, cluster, bounds
<1>10. CASE Deleting
  BY <1>10
  DEF Deleting, TdPolicy, TdPool, TdNetsets, TdNamespaces, Looped, Tolerated, Lost, cluster, bounds
<1>11. CASE UNCHANGED vars
  BY <1>11 DEF vars, cluster, process, bounds
<1> QED BY <1>1, <1>2, <1>3, <1>4, <1>5, <1>6, <1>7, <1>8, <1>9, <1>10, <1>11, StepsOfACase

\* The first cleanups are registered when the observers are up.
LEMMA NothingRegisteredKept ==
  ASSUME NothingRegistered, [Next]_vars
  PROVE  NothingRegistered'
<1> USE DEF NothingRegistered,
            Go, Fatal, Works
<1>1. CASE StartCase
  BY <1>1 DEF StartCase, cluster
<1>2. CASE Crash
  BY <1>2 DEF Crash, cluster
<1>3. CASE Repairing
  BY <1>3
  DEF Repairing, RepairList, RepairHeps, RepairPool, RepairFlush, cluster, bounds
<1>4. CASE Recovering
  BY <1>4
  DEF Recovering, Reap, ReapHeps, HealthGate, Bounce, Recheck, cluster, bounds
<1>5. CASE Preparing
  BY <1>5
  DEF Preparing, PreClean, Ensure, StartObservers, Looped, cluster, bounds
<1>6. CASE Applying
  BY <1>6
  DEF Applying, ApplyBase, ApplyNetsets, ApplyPolicy, cluster, bounds
<1>7. CASE Attaching
  BY <1>7
  DEF Attaching, NarrowFailsafes, ApplyPool, ApplyHeps, cluster, bounds
<1>8. CASE Probing
  BY <1>8
  DEF Probing, Settle, Predict, Probe, cluster, bounds
<1>9. CASE Detaching
  BY <1>9
  DEF Detaching, Cleanup, TdHeps, TdFlush, Tolerated, Lost, Kept, cluster, bounds
<1>10. CASE Deleting
  BY <1>10
  DEF Deleting, TdPolicy, TdPool, TdNetsets, TdNamespaces, Looped, Tolerated, Lost, cluster, bounds
<1>11. CASE UNCHANGED vars
  BY <1>11 DEF vars, cluster, process, bounds
<1> QED BY <1>1, <1>2, <1>3, <1>4, <1>5, <1>6, <1>7, <1>8, <1>9, <1>10, <1>11, StepsOfACase

\* A case attaches no HostEndpoint but its own, and records it first.
LEMMA OwnHepsKept ==
  ASSUME HInv, [Next]_vars, "list" \notin Faulty
  PROVE  OwnHeps'
<1> USE DEF HInv, NoHeps, Quiet, NothingRegistered, OwnHeps,
            Go, Fatal, Works, Fails
<1>1. CASE StartCase
  BY <1>1 DEF StartCase, cluster
<1>2. CASE Crash
  BY <1>2 DEF Crash, cluster
<1>3. CASE Repairing
  BY <1>3
  DEF Repairing, RepairList, RepairHeps, RepairPool, RepairFlush, cluster, bounds
<1>4. CASE Recovering
  BY <1>4
  DEF Recovering, Reap, ReapHeps, HealthGate, Bounce, Recheck, cluster, bounds
<1>5. CASE Preparing
  BY <1>5
  DEF Preparing, PreClean, Ensure, StartObservers, Looped, cluster, bounds
<1>6. CASE Applying
  BY <1>6
  DEF Applying, ApplyBase, ApplyNetsets, ApplyPolicy, cluster, bounds
<1>7. CASE Attaching
  BY <1>7
  DEF Attaching, NarrowFailsafes, ApplyPool, ApplyHeps, cluster, bounds
<1>8. CASE Probing
  BY <1>8
  DEF Probing, Settle, Predict, Probe, cluster, bounds
<1>9. CASE Detaching
  BY <1>9
  DEF Detaching, Cleanup, TdHeps, TdFlush, Tolerated, Lost, Kept, cluster, bounds
<1>10. CASE Deleting
  BY <1>10
  DEF Deleting, TdPolicy, TdPool, TdNetsets, TdNamespaces, Looped, Tolerated, Lost, cluster, bounds
<1>11. CASE UNCHANGED vars
  BY <1>11 DEF vars, cluster, process, bounds
<1> QED BY <1>1, <1>2, <1>3, <1>4, <1>5, <1>6, <1>7, <1>8, <1>9, <1>10, <1>11, StepsOfACase

\* The policies are applied before the steps that attach.
LEMMA AllowRulesKept ==
  ASSUME PlaceOK, AllowRules, [Next]_vars
  PROVE  AllowRules'
<1> USE DEF PlaceOK, AllowRules,
            Go, Fatal, Works
<1>1. CASE StartCase
  BY <1>1 DEF StartCase, cluster
<1>2. CASE Crash
  BY <1>2 DEF Crash, cluster
<1>3. CASE Repairing
  BY <1>3
  DEF Repairing, RepairList, RepairHeps, RepairPool, RepairFlush, cluster, bounds
<1>4. CASE Recovering
  BY <1>4
  DEF Recovering, Reap, ReapHeps, HealthGate, Bounce, Recheck, cluster, bounds
<1>5. CASE Preparing
  BY <1>5
  DEF Preparing, PreClean, Ensure, StartObservers, Looped, cluster, bounds
<1>6. CASE Applying
  BY <1>6
  DEF Applying, ApplyBase, ApplyNetsets, ApplyPolicy, cluster, bounds
<1>7. CASE Attaching
  BY <1>7
  DEF Attaching, NarrowFailsafes, ApplyPool, ApplyHeps, cluster, bounds
<1>8. CASE Probing
  BY <1>8
  DEF Probing, Settle, Predict, Probe, cluster, bounds
<1>9. CASE Detaching
  BY <1>9
  DEF Detaching, Cleanup, TdHeps, TdFlush, Tolerated, Lost, Kept, cluster, bounds
<1>10. CASE Deleting
  BY <1>10
  DEF Deleting, TdPolicy, TdPool, TdNetsets, TdNamespaces, Looped, Tolerated, Lost, cluster, bounds
<1>11. CASE UNCHANGED vars
  BY <1>11 DEF vars, cluster, process, bounds
<1> QED BY <1>1, <1>2, <1>3, <1>4, <1>5, <1>6, <1>7, <1>8, <1>9, <1>10, <1>11, StepsOfACase

\* Policies are deleted only where no HostEndpoint is left, and attaching follows them.
LEMMA HepNeverStrandedKept ==
  ASSUME HInv, [Next]_vars, "list" \notin Faulty
  PROVE  HepNeverStranded'
<1> USE CasesAssumption DEF HInv, CaseKnown, NoHeps, Quiet, AllowRules, HepNeverStranded,
            Go, Fatal, Works
<1>1. CASE StartCase
  BY <1>1 DEF StartCase, cluster
<1>2. CASE Crash
  BY <1>2 DEF Crash, cluster
<1>3. CASE Repairing
  BY <1>3
  DEF Repairing, RepairList, RepairHeps, RepairPool, RepairFlush, cluster, bounds
<1>4. CASE Recovering
  BY <1>4
  DEF Recovering, Reap, ReapHeps, HealthGate, Bounce, Recheck, cluster, bounds
<1>5. CASE Preparing
  BY <1>5
  DEF Preparing, PreClean, Ensure, StartObservers, Looped, cluster, bounds
<1>6. CASE Applying
  BY <1>6
  DEF Applying, ApplyBase, ApplyNetsets, ApplyPolicy, cluster, bounds
<1>7. CASE Attaching
  <2>1. CASE NarrowFailsafes
    BY <2>1 DEF NarrowFailsafes, cluster, bounds
  <2>2. CASE ApplyPool
    BY <2>2 DEF ApplyPool, cluster, bounds
  <2>3. CASE ApplyHeps
    BY <2>3 DEF ApplyHeps, cluster, bounds
  <2> QED BY <1>7, <2>1, <2>2, <2>3 DEF Attaching
<1>8. CASE Probing
  BY <1>8
  DEF Probing, Settle, Predict, Probe, cluster, bounds
<1>9. CASE Detaching
  BY <1>9
  DEF Detaching, Cleanup, TdHeps, TdFlush, Tolerated, Lost, Kept, cluster, bounds
<1>10. CASE Deleting
  BY <1>10
  DEF Deleting, TdPolicy, TdPool, TdNetsets, TdNamespaces, Looped, Tolerated, Lost, cluster, bounds
<1>11. CASE UNCHANGED vars
  BY <1>11 DEF vars, cluster, process, bounds
<1> QED BY <1>1, <1>2, <1>3, <1>4, <1>5, <1>6, <1>7, <1>8, <1>9, <1>10, <1>11, StepsOfACase

LEMMA InitHInv == Init => HInv
BY InitTInv DEF Init, TInv, HInv, CaseKnown, NoHeps, Quiet, NothingRegistered, OwnHeps,
   AllowRules, HepNeverStranded

LEMMA NextHInv == ASSUME "list" \notin Faulty, HInv, [Next]_vars PROVE HInv'
<1>1. CaseKnown' /\ PlaceOK'
  BY CaseKnownKept, PlaceOKKept DEF HInv
<1>2. NothingRegistered' /\ AllowRules'
  BY NothingRegisteredKept, AllowRulesKept DEF HInv
<1>3. NoHeps' /\ OwnHeps' /\ HepNeverStranded'
  BY NoHepsKept, OwnHepsKept, HepNeverStrandedKept
<1> QED BY <1>1, <1>2, <1>3 DEF HInv

\* Unless listing the HostEndpoints fails, no sequence of cases, failures and crashes
\* leaves one on a live node without the allow rules of its case.
THEOREM CaseHepNeverStranded ==
  ASSUME "list" \notin Faulty
  PROVE  Spec => []HepNeverStranded
<1>1. HInv /\ [Next]_vars => HInv'
  BY NextHInv
<1>2. HInv => HepNeverStranded
  BY DEF HInv
<1> QED BY <1>1, <1>2, InitHInv, PTL DEF Spec
-----------------------------------------------------------------------------
(* What is probed *)

\* Listing and the deletions before a case are answered.
Answers == "list" \notin Faulty /\ "reap" \notin Faulty

Applied == {"narrow", "pool", "heps", "settle", "predict", "probe"}
Settled == {"settle", "predict", "probe"}

\* The repair that ends a recovery.
LastRepair == pc \in {"repair", "repairHeps", "repairPool", "repairFlush"} /\ after = "recheck"

\* From the reaping to the case's own sets there are none.
NoSets ==
  LastRepair \/ pc \in {"reapHeps", "gate", "reapHepsAgain", "recheck", "preclean", "ensure",
                        "observers", "base", "netsets"} => netsets = {}
OwnSets ==
  pc \in Applied \cup {"policy"} => netsets = IF case.netset THEN {case.name} ELSE {}

HepSteps  == pc \in {"narrow", "pool", "heps"} => case.hep
ExactHeps == pc \in Settled => heps = IF case.hep THEN {case.name} ELSE {}
Narrowed  == pc \in {"pool", "heps"} \/ (pc \in Settled /\ case.hep) => narrowed
Pooled    == pc = "heps" \/ (pc \in Settled /\ case.hep) => NoNodePool \/ pool
Flushed   == pc \in {"predict", "probe"} /\ case.hep => ~stale
Homes ==
  /\ pc = "ensure" => case.ns \ todo \subseteq ns
  /\ pc \in Applied \cup {"observers", "base", "netsets", "policy"} => case.ns \subseteq ns
OwnPolicies == pc \in Applied => case.policies \subseteq policies

\* Every path to a case's own sets passes a reaping of all of them.
LEMMA NoSetsKept ==
  ASSUME PlaceOK, NoSets, [Next]_vars, Answers
  PROVE  NoSets'
<1> USE DEF PlaceOK, Answers, NoSets, LastRepair,
            Go, Fatal, Works, Fails
<1>1. CASE StartCase
  BY <1>1 DEF StartCase, cluster
<1>2. CASE Crash
  BY <1>2 DEF Crash, cluster
<1>3. CASE Repairing
  BY <1>3
  DEF Repairing, RepairList, RepairHeps, RepairPool, RepairFlush, cluster, bounds
<1>4. CASE Recovering
  BY <1>4
  DEF Recovering, Reap, ReapHeps, HealthGate, Bounce, Recheck, cluster, bounds
<1>5. CASE Preparing
  BY <1>5
  DEF Preparing, PreClean, Ensure, StartObservers, Looped, cluster, bounds
<1>6. CASE Applying
  BY <1>6
  DEF Applying, ApplyBase, ApplyNetsets, ApplyPolicy, cluster, bounds
<1>7. CASE Attaching
  BY <1>7
  DEF Attaching, NarrowFailsafes, ApplyPool, ApplyHeps, cluster, bounds
<1>8. CASE Probing
  BY <1>8
  DEF Probing, Settle, Predict, Probe, cluster, bounds
<1>9. CASE Detaching
  BY <1>9
  DEF Detaching, Cleanup, TdHeps, TdFlush, Tolerated, Lost, Kept, cluster, bounds
<1>10. CASE Deleting
  BY <1>10
  DEF Deleting, TdPolicy, TdPool, TdNetsets, TdNamespaces, Looped, Tolerated, Lost, cluster, bounds
<1>11. CASE UNCHANGED vars
  BY <1>11 DEF vars, cluster, process, bounds
<1> QED BY <1>1, <1>2, <1>3, <1>4, <1>5, <1>6, <1>7, <1>8, <1>9, <1>10, <1>11, StepsOfACase

\* The case's own sets are the only ones from then on.
LEMMA OwnSetsKept ==
  ASSUME PlaceOK, NoSets, OwnSets, [Next]_vars
  PROVE  OwnSets'
<1> USE DEF PlaceOK, NoSets, OwnSets, LastRepair, Settled, Applied,
            Go, Fatal, Works
<1>1. CASE StartCase
  BY <1>1 DEF StartCase, cluster
<1>2. CASE Crash
  BY <1>2 DEF Crash, cluster
<1>3. CASE Repairing
  BY <1>3
  DEF Repairing, RepairList, RepairHeps, RepairPool, RepairFlush, cluster, bounds
<1>4. CASE Recovering
  BY <1>4
  DEF Recovering, Reap, ReapHeps, HealthGate, Bounce, Recheck, cluster, bounds
<1>5. CASE Preparing
  BY <1>5
  DEF Preparing, PreClean, Ensure, StartObservers, Looped, cluster, bounds
<1>6. CASE Applying
  BY <1>6
  DEF Applying, ApplyBase, ApplyNetsets, ApplyPolicy, cluster, bounds
<1>7. CASE Attaching
  BY <1>7
  DEF Attaching, NarrowFailsafes, ApplyPool, ApplyHeps, cluster, bounds
<1>8. CASE Probing
  BY <1>8
  DEF Probing, Settle, Predict, Probe, cluster, bounds
<1>9. CASE Detaching
  BY <1>9
  DEF Detaching, Cleanup, TdHeps, TdFlush, Tolerated, Lost, Kept, cluster, bounds
<1>10. CASE Deleting
  BY <1>10
  DEF Deleting, TdPolicy, TdPool, TdNetsets, TdNamespaces, Looped, Tolerated, Lost, cluster, bounds
<1>11. CASE UNCHANGED vars
  BY <1>11 DEF vars, cluster, process, bounds
<1> QED BY <1>1, <1>2, <1>3, <1>4, <1>5, <1>6, <1>7, <1>8, <1>9, <1>10, <1>11, StepsOfACase

\* Only a case with HostEndpoints takes the steps that attach them.
LEMMA HepStepsKept ==
  ASSUME PlaceOK, HepSteps, [Next]_vars
  PROVE  HepSteps'
<1> USE DEF PlaceOK, HepSteps,
            Go, Fatal, Works
<1>1. CASE StartCase
  BY <1>1 DEF StartCase, cluster
<1>2. CASE Crash
  BY <1>2 DEF Crash, cluster
<1>3. CASE Repairing
  BY <1>3
  DEF Repairing, RepairList, RepairHeps, RepairPool, RepairFlush, cluster, bounds
<1>4. CASE Recovering
  BY <1>4
  DEF Recovering, Reap, ReapHeps, HealthGate, Bounce, Recheck, cluster, bounds
<1>5. CASE Preparing
  BY <1>5
  DEF Preparing, PreClean, Ensure, StartObservers, Looped, cluster, bounds
<1>6. CASE Applying
  BY <1>6
  DEF Applying, ApplyBase, ApplyNetsets, ApplyPolicy, cluster, bounds
<1>7. CASE Attaching
  BY <1>7
  DEF Attaching, NarrowFailsafes, ApplyPool, ApplyHeps, cluster, bounds
<1>8. CASE Probing
  BY <1>8
  DEF Probing, Settle, Predict, Probe, cluster, bounds
<1>9. CASE Detaching
  BY <1>9
  DEF Detaching, Cleanup, TdHeps, TdFlush, Tolerated, Lost, Kept, cluster, bounds
<1>10. CASE Deleting
  BY <1>10
  DEF Deleting, TdPolicy, TdPool, TdNetsets, TdNamespaces, Looped, Tolerated, Lost, cluster, bounds
<1>11. CASE UNCHANGED vars
  BY <1>11 DEF vars, cluster, process, bounds
<1> QED BY <1>1, <1>2, <1>3, <1>4, <1>5, <1>6, <1>7, <1>8, <1>9, <1>10, <1>11, StepsOfACase

\* When Felix has converged the HostEndpoints are the case's.
LEMMA ExactHepsKept ==
  ASSUME PlaceOK, NoHeps, HepSteps, ExactHeps, [Next]_vars
  PROVE  ExactHeps'
<1> USE DEF PlaceOK, NoHeps, Quiet, HepSteps, ExactHeps, Settled, Applied,
            Go, Fatal, Works
<1>1. CASE StartCase
  BY <1>1 DEF StartCase, cluster
<1>2. CASE Crash
  BY <1>2 DEF Crash, cluster
<1>3. CASE Repairing
  BY <1>3
  DEF Repairing, RepairList, RepairHeps, RepairPool, RepairFlush, cluster, bounds
<1>4. CASE Recovering
  BY <1>4
  DEF Recovering, Reap, ReapHeps, HealthGate, Bounce, Recheck, cluster, bounds
<1>5. CASE Preparing
  BY <1>5
  DEF Preparing, PreClean, Ensure, StartObservers, Looped, cluster, bounds
<1>6. CASE Applying
  BY <1>6
  DEF Applying, ApplyBase, ApplyNetsets, ApplyPolicy, cluster, bounds
<1>7. CASE Attaching
  BY <1>7
  DEF Attaching, NarrowFailsafes, ApplyPool, ApplyHeps, cluster, bounds
<1>8. CASE Probing
  BY <1>8
  DEF Probing, Settle, Predict, Probe, cluster, bounds
<1>9. CASE Detaching
  BY <1>9
  DEF Detaching, Cleanup, TdHeps, TdFlush, Tolerated, Lost, Kept, cluster, bounds
<1>10. CASE Deleting
  BY <1>10
  DEF Deleting, TdPolicy, TdPool, TdNetsets, TdNamespaces, Looped, Tolerated, Lost, cluster, bounds
<1>11. CASE UNCHANGED vars
  BY <1>11 DEF vars, cluster, process, bounds
<1> QED BY <1>1, <1>2, <1>3, <1>4, <1>5, <1>6, <1>7, <1>8, <1>9, <1>10, <1>11, StepsOfACase

\* The failsafes are narrowed before anything is attached.
LEMMA NarrowedKept ==
  ASSUME PlaceOK, HepSteps, Narrowed, [Next]_vars
  PROVE  Narrowed'
<1> USE DEF PlaceOK, HepSteps, Narrowed, Settled, Applied,
            Go, Fatal, Works
<1>1. CASE StartCase
  BY <1>1 DEF StartCase, cluster
<1>2. CASE Crash
  BY <1>2 DEF Crash, cluster
<1>3. CASE Repairing
  BY <1>3
  DEF Repairing, RepairList, RepairHeps, RepairPool, RepairFlush, cluster, bounds
<1>4. CASE Recovering
  BY <1>4
  DEF Recovering, Reap, ReapHeps, HealthGate, Bounce, Recheck, cluster, bounds
<1>5. CASE Preparing
  BY <1>5
  DEF Preparing, PreClean, Ensure, StartObservers, Looped, cluster, bounds
<1>6. CASE Applying
  BY <1>6
  DEF Applying, ApplyBase, ApplyNetsets, ApplyPolicy, cluster, bounds
<1>7. CASE Attaching
  BY <1>7
  DEF Attaching, NarrowFailsafes, ApplyPool, ApplyHeps, cluster, bounds
<1>8. CASE Probing
  BY <1>8
  DEF Probing, Settle, Predict, Probe, cluster, bounds
<1>9. CASE Detaching
  BY <1>9
  DEF Detaching, Cleanup, TdHeps, TdFlush, Tolerated, Lost, Kept, cluster, bounds
<1>10. CASE Deleting
  BY <1>10
  DEF Deleting, TdPolicy, TdPool, TdNetsets, TdNamespaces, Looped, Tolerated, Lost, cluster, bounds
<1>11. CASE UNCHANGED vars
  BY <1>11 DEF vars, cluster, process, bounds
<1> QED BY <1>1, <1>2, <1>3, <1>4, <1>5, <1>6, <1>7, <1>8, <1>9, <1>10, <1>11, StepsOfACase

\* So is the pool of the node subnet made, unless the run does without.
LEMMA PooledKept ==
  ASSUME PlaceOK, HepSteps, Pooled, [Next]_vars
  PROVE  Pooled'
<1> USE DEF PlaceOK, HepSteps, Pooled, Settled, Applied,
            Go, Fatal, Works
<1>1. CASE StartCase
  BY <1>1 DEF StartCase, cluster
<1>2. CASE Crash
  BY <1>2 DEF Crash, cluster
<1>3. CASE Repairing
  BY <1>3
  DEF Repairing, RepairList, RepairHeps, RepairPool, RepairFlush, cluster, bounds
<1>4. CASE Recovering
  BY <1>4
  DEF Recovering, Reap, ReapHeps, HealthGate, Bounce, Recheck, cluster, bounds
<1>5. CASE Preparing
  BY <1>5
  DEF Preparing, PreClean, Ensure, StartObservers, Looped, cluster, bounds
<1>6. CASE Applying
  BY <1>6
  DEF Applying, ApplyBase, ApplyNetsets, ApplyPolicy, cluster, bounds
<1>7. CASE Attaching
  BY <1>7
  DEF Attaching, NarrowFailsafes, ApplyPool, ApplyHeps, cluster, bounds
<1>8. CASE Probing
  BY <1>8
  DEF Probing, Settle, Predict, Probe, cluster, bounds
<1>9. CASE Detaching
  BY <1>9
  DEF Detaching, Cleanup, TdHeps, TdFlush, Tolerated, Lost, Kept, cluster, bounds
<1>10. CASE Deleting
  BY <1>10
  DEF Deleting, TdPolicy, TdPool, TdNetsets, TdNamespaces, Looped, Tolerated, Lost, cluster, bounds
<1>11. CASE UNCHANGED vars
  BY <1>11 DEF vars, cluster, process, bounds
<1> QED BY <1>1, <1>2, <1>3, <1>4, <1>5, <1>6, <1>7, <1>8, <1>9, <1>10, <1>11, StepsOfACase

\* Connections older than the HostEndpoints are flushed before the prediction.
LEMMA FlushedKept ==
  ASSUME PlaceOK, Flushed, [Next]_vars
  PROVE  Flushed'
<1> USE DEF PlaceOK, Flushed,
            Go, Fatal, Works
<1>1. CASE StartCase
  BY <1>1 DEF StartCase, cluster
<1>2. CASE Crash
  BY <1>2 DEF Crash, cluster
<1>3. CASE Repairing
  BY <1>3
  DEF Repairing, RepairList, RepairHeps, RepairPool, RepairFlush, cluster, bounds
<1>4. CASE Recovering
  BY <1>4
  DEF Recovering, Reap, ReapHeps, HealthGate, Bounce, Recheck, cluster, bounds
<1>5. CASE Preparing
  BY <1>5
  DEF Preparing, PreClean, Ensure, StartObservers, Looped, cluster, bounds
<1>6. CASE Applying
  BY <1>6
  DEF Applying, ApplyBase, ApplyNetsets, ApplyPolicy, cluster, bounds
<1>7. CASE Attaching
  BY <1>7
  DEF Attaching, NarrowFailsafes, ApplyPool, ApplyHeps, cluster, bounds
<1>8. CASE Probing
  BY <1>8
  DEF Probing, Settle, Predict, Probe, cluster, bounds
<1>9. CASE Detaching
  BY <1>9
  DEF Detaching, Cleanup, TdHeps, TdFlush, Tolerated, Lost, Kept, cluster, bounds
<1>10. CASE Deleting
  BY <1>10
  DEF Deleting, TdPolicy, TdPool, TdNetsets, TdNamespaces, Looped, Tolerated, Lost, cluster, bounds
<1>11. CASE UNCHANGED vars
  BY <1>11 DEF vars, cluster, process, bounds
<1> QED BY <1>1, <1>2, <1>3, <1>4, <1>5, <1>6, <1>7, <1>8, <1>9, <1>10, <1>11, StepsOfACase

\* A case's namespaces are there from ensureNamespace on.
LEMMA HomesKept ==
  ASSUME PlaceOK, Homes, [Next]_vars
  PROVE  Homes'
<1> USE DEF PlaceOK, Homes, Settled, Applied,
            Go, Fatal, Works
<1>1. CASE StartCase
  BY <1>1 DEF StartCase, cluster
<1>2. CASE Crash
  BY <1>2 DEF Crash, cluster
<1>3. CASE Repairing
  BY <1>3
  DEF Repairing, RepairList, RepairHeps, RepairPool, RepairFlush, cluster, bounds
<1>4. CASE Recovering
  BY <1>4
  DEF Recovering, Reap, ReapHeps, HealthGate, Bounce, Recheck, cluster, bounds
<1>5. CASE Preparing
  BY <1>5
  DEF Preparing, PreClean, Ensure, StartObservers, Looped, cluster, bounds
<1>6. CASE Applying
  BY <1>6
  DEF Applying, ApplyBase, ApplyNetsets, ApplyPolicy, cluster, bounds
<1>7. CASE Attaching
  BY <1>7
  DEF Attaching, NarrowFailsafes, ApplyPool, ApplyHeps, cluster, bounds
<1>8. CASE Probing
  BY <1>8
  DEF Probing, Settle, Predict, Probe, cluster, bounds
<1>9. CASE Detaching
  BY <1>9
  DEF Detaching, Cleanup, TdHeps, TdFlush, Tolerated, Lost, Kept, cluster, bounds
<1>10. CASE Deleting
  BY <1>10
  DEF Deleting, TdPolicy, TdPool, TdNetsets, TdNamespaces, Looped, Tolerated, Lost, cluster, bounds
<1>11. CASE UNCHANGED vars
  BY <1>11 DEF vars, cluster, process, bounds
<1> QED BY <1>1, <1>2, <1>3, <1>4, <1>5, <1>6, <1>7, <1>8, <1>9, <1>10, <1>11, StepsOfACase

\* A case's policies are there from the step that applies them.
LEMMA OwnPoliciesKept ==
  ASSUME PlaceOK, OwnPolicies, [Next]_vars
  PROVE  OwnPolicies'
<1> USE DEF PlaceOK, OwnPolicies, Settled, Applied,
            Go, Fatal, Works
<1>1. CASE StartCase
  BY <1>1 DEF StartCase, cluster
<1>2. CASE Crash
  BY <1>2 DEF Crash, cluster
<1>3. CASE Repairing
  BY <1>3
  DEF Repairing, RepairList, RepairHeps, RepairPool, RepairFlush, cluster, bounds
<1>4. CASE Recovering
  BY <1>4
  DEF Recovering, Reap, ReapHeps, HealthGate, Bounce, Recheck, cluster, bounds
<1>5. CASE Preparing
  BY <1>5
  DEF Preparing, PreClean, Ensure, StartObservers, Looped, cluster, bounds
<1>6. CASE Applying
  BY <1>6
  DEF Applying, ApplyBase, ApplyNetsets, ApplyPolicy, cluster, bounds
<1>7. CASE Attaching
  BY <1>7
  DEF Attaching, NarrowFailsafes, ApplyPool, ApplyHeps, cluster, bounds
<1>8. CASE Probing
  BY <1>8
  DEF Probing, Settle, Predict, Probe, cluster, bounds
<1>9. CASE Detaching
  BY <1>9
  DEF Detaching, Cleanup, TdHeps, TdFlush, Tolerated, Lost, Kept, cluster, bounds
<1>10. CASE Deleting
  BY <1>10
  DEF Deleting, TdPolicy, TdPool, TdNetsets, TdNamespaces, Looped, Tolerated, Lost, cluster, bounds
<1>11. CASE UNCHANGED vars
  BY <1>11 DEF vars, cluster, process, bounds
<1> QED BY <1>1, <1>2, <1>3, <1>4, <1>5, <1>6, <1>7, <1>8, <1>9, <1>10, <1>11, StepsOfACase

PInv ==
  /\ HInv /\ NoSets /\ OwnSets /\ HepSteps /\ ExactHeps /\ Narrowed /\ Pooled
  /\ Flushed /\ Homes /\ OwnPolicies

LEMMA NextPInv == ASSUME Answers, PInv, [Next]_vars PROVE PInv'
<1>1. HInv'
  BY NextHInv DEF PInv, Answers
<1>2. PlaceOK /\ NoHeps
  BY DEF PInv, HInv
<1>3. NoSets' /\ OwnSets' /\ Homes' /\ OwnPolicies'
  BY <1>2, NoSetsKept, OwnSetsKept, HomesKept, OwnPoliciesKept DEF PInv
<1>4. HepSteps' /\ ExactHeps' /\ Narrowed' /\ Pooled' /\ Flushed'
  BY <1>2, HepStepsKept, ExactHepsKept, NarrowedKept, PooledKept, FlushedKept DEF PInv
<1> QED BY <1>1, <1>3, <1>4 DEF PInv

LEMMA InitPInv == Init => PInv
BY InitHInv DEF Init, PInv, NoSets, OwnSets, LastRepair, HepSteps, ExactHeps, Narrowed, Pooled,
   Flushed, Homes, OwnPolicies, Applied, Settled

LEMMA SpecPInv == ASSUME Answers PROVE Spec => []PInv
<1>2. PInv /\ [Next]_vars => PInv'
  BY NextPInv
<1> QED BY <1>2, InitPInv, PTL DEF Spec

\* When listing and reaping are answered, no sequence of cases, failures and crashes
\* makes the cluster differ from what the engine was asked about when a case is probed.
THEOREM CaseProbedAsPredicted ==
  ASSUME Answers
  PROVE  Spec => []ProbedAsPredicted
<1>1. PInv => ProbedAsPredicted
  BY DEF PInv, OwnSets, ExactHeps, Narrowed, Pooled, Flushed, Homes, OwnPolicies, Applied,
         Settled, ProbedAsPredicted
<1> QED BY <1>1, SpecPInv, PTL
-----------------------------------------------------------------------------
(* What an earlier case left *)

\* Cases keep to the kinds that reaping lists and, of the rest, to namespaces that are
\* deleted with them.
KeptApart ==
  \A c \in Cases : \A p \in c.policies :
    p.kind # "admin" /\ (p.kind = "namespaced" => p.ns \in c.ns \ Protected)

\* A policy in a namespace goes with it.
Housed == \A p \in policies : p.kind = "namespaced" => p.ns \in ns

KindsKept == \A p \in policies : p.kind # "admin" /\ (p.kind = "namespaced" => p.ns \notin Protected)

NoCluster ==
  LastRepair \/ pc \in {"reapHeps", "gate", "reapHepsAgain", "recheck", "preclean", "ensure",
                        "observers", "base", "netsets", "policy"}
    => \A p \in policies : p.kind # "cluster"
Emptied ==
  /\ pc = "preclean" =>
       \A p \in policies : p.kind = "namespaced" => p.ns \notin case.ns \ todo
  /\ pc \in {"ensure", "observers", "base", "netsets", "policy"} =>
       \A p \in policies : p.kind = "namespaced" => p.ns \notin case.ns
NoForeign == pc \in Applied => ~ \E p \in policies : Foreign(p)

\* Deleting a namespace takes its policies along, and none is applied outside one.
LEMMA HousedKept ==
  ASSUME PlaceOK, CaseKnown, Homes, Housed, [Next]_vars, KeptApart
  PROVE  Housed'
<1> USE DEF PlaceOK, CaseKnown, Homes, Housed, KeptApart, Without, Undeleted, Settled, Applied,
            Go, Fatal, Works
<1>1. CASE StartCase
  BY <1>1 DEF StartCase, cluster
<1>2. CASE Crash
  BY <1>2 DEF Crash, cluster
<1>3. CASE Repairing
  BY <1>3
  DEF Repairing, RepairList, RepairHeps, RepairPool, RepairFlush, cluster, bounds
<1>4. CASE Recovering
  BY <1>4
  DEF Recovering, Reap, ReapHeps, HealthGate, Bounce, Recheck, cluster, bounds
<1>5. CASE Preparing
  <2>1. CASE PreClean
    BY <2>1 DEF PreClean, Looped, cluster, bounds
  <2>2. CASE Ensure
    BY <2>2 DEF Ensure, Looped, cluster, bounds
  <2>3. CASE StartObservers
    BY <2>3 DEF StartObservers, Looped, cluster, bounds
  <2> QED BY <1>5, <2>1, <2>2, <2>3 DEF Preparing
<1>6. CASE Applying
  BY <1>6
  DEF Applying, ApplyBase, ApplyNetsets, ApplyPolicy, cluster, bounds
<1>7. CASE Attaching
  BY <1>7
  DEF Attaching, NarrowFailsafes, ApplyPool, ApplyHeps, cluster, bounds
<1>8. CASE Probing
  BY <1>8
  DEF Probing, Settle, Predict, Probe, cluster, bounds
<1>9. CASE Detaching
  BY <1>9
  DEF Detaching, Cleanup, TdHeps, TdFlush, Tolerated, Lost, Kept, cluster, bounds
<1>10. CASE Deleting
  <2>1. CASE TdPolicy
    BY <2>1 DEF TdPolicy, Looped, Tolerated, Lost, cluster, bounds
  <2>2. CASE TdPool
    BY <2>2 DEF TdPool, Looped, Tolerated, Lost, cluster, bounds
  <2>3. CASE TdNetsets
    BY <2>3 DEF TdNetsets, Looped, Tolerated, Lost, cluster, bounds
  <2>4. CASE TdNamespaces
    BY <2>4 DEF TdNamespaces, Looped, Tolerated, Lost, cluster, bounds
  <2> QED BY <1>10, <2>1, <2>2, <2>3, <2>4 DEF Deleting
<1>11. CASE UNCHANGED vars
  BY <1>11 DEF vars, cluster, process, bounds
<1> QED BY <1>1, <1>2, <1>3, <1>4, <1>5, <1>6, <1>7, <1>8, <1>9, <1>10, <1>11, StepsOfACase

\* The policies on the cluster are of some case.
LEMMA KindsKeptKept ==
  ASSUME CaseKnown, KindsKept, [Next]_vars, KeptApart
  PROVE  KindsKept'
<1> USE DEF CaseKnown, KindsKept, KeptApart, Without, Undeleted,
            Go, Fatal, Works
<1>1. CASE StartCase
  BY <1>1 DEF StartCase, cluster
<1>2. CASE Crash
  BY <1>2 DEF Crash, cluster
<1>3. CASE Repairing
  BY <1>3
  DEF Repairing, RepairList, RepairHeps, RepairPool, RepairFlush, cluster, bounds
<1>4. CASE Recovering
  BY <1>4
  DEF Recovering, Reap, ReapHeps, HealthGate, Bounce, Recheck, cluster, bounds
<1>5. CASE Preparing
  BY <1>5
  DEF Preparing, PreClean, Ensure, StartObservers, Looped, cluster, bounds
<1>6. CASE Applying
  BY <1>6
  DEF Applying, ApplyBase, ApplyNetsets, ApplyPolicy, cluster, bounds
<1>7. CASE Attaching
  BY <1>7
  DEF Attaching, NarrowFailsafes, ApplyPool, ApplyHeps, cluster, bounds
<1>8. CASE Probing
  BY <1>8
  DEF Probing, Settle, Predict, Probe, cluster, bounds
<1>9. CASE Detaching
  BY <1>9
  DEF Detaching, Cleanup, TdHeps, TdFlush, Tolerated, Lost, Kept, cluster, bounds
<1>10. CASE Deleting
  BY <1>10
  DEF Deleting, TdPolicy, TdPool, TdNetsets, TdNamespaces, Looped, Tolerated, Lost, cluster, bounds
<1>11. CASE UNCHANGED vars
  BY <1>11 DEF vars, cluster, process, bounds
<1> QED BY <1>1, <1>2, <1>3, <1>4, <1>5, <1>6, <1>7, <1>8, <1>9, <1>10, <1>11, StepsOfACase

\* The cluster-wide policies that are reaped stay away until the case applies its own.
LEMMA NoClusterKept ==
  ASSUME PlaceOK, NoCluster, [Next]_vars, Answers
  PROVE  NoCluster'
<1> USE DEF PlaceOK, Answers, NoCluster, LastRepair, Without,
            Go, Fatal, Works, Fails
<1>1. CASE StartCase
  BY <1>1 DEF StartCase, cluster
<1>2. CASE Crash
  BY <1>2 DEF Crash, cluster
<1>3. CASE Repairing
  BY <1>3
  DEF Repairing, RepairList, RepairHeps, RepairPool, RepairFlush, cluster, bounds
<1>4. CASE Recovering
  BY <1>4
  DEF Recovering, Reap, ReapHeps, HealthGate, Bounce, Recheck, cluster, bounds
<1>5. CASE Preparing
  BY <1>5
  DEF Preparing, PreClean, Ensure, StartObservers, Looped, cluster, bounds
<1>6. CASE Applying
  BY <1>6
  DEF Applying, ApplyBase, ApplyNetsets, ApplyPolicy, cluster, bounds
<1>7. CASE Attaching
  BY <1>7
  DEF Attaching, NarrowFailsafes, ApplyPool, ApplyHeps, cluster, bounds
<1>8. CASE Probing
  BY <1>8
  DEF Probing, Settle, Predict, Probe, cluster, bounds
<1>9. CASE Detaching
  BY <1>9
  DEF Detaching, Cleanup, TdHeps, TdFlush, Tolerated, Lost, Kept, cluster, bounds
<1>10. CASE Deleting
  BY <1>10
  DEF Deleting, TdPolicy, TdPool, TdNetsets, TdNamespaces, Looped, Tolerated, Lost, cluster, bounds
<1>11. CASE UNCHANGED vars
  BY <1>11 DEF vars, cluster, process, bounds
<1> QED BY <1>1, <1>2, <1>3, <1>4, <1>5, <1>6, <1>7, <1>8, <1>9, <1>10, <1>11, StepsOfACase

\* The case's namespaces were deleted, with their policies, before they were made.
LEMMA EmptiedKept ==
  ASSUME PlaceOK, Housed, KindsKept, Emptied, [Next]_vars
  PROVE  Emptied'
<1> USE DEF PlaceOK, Housed, KindsKept, Emptied, Without,
            Go, Fatal, Works
<1>1. CASE StartCase
  BY <1>1 DEF StartCase, cluster
<1>2. CASE Crash
  BY <1>2 DEF Crash, cluster
<1>3. CASE Repairing
  BY <1>3
  DEF Repairing, RepairList, RepairHeps, RepairPool, RepairFlush, cluster, bounds
<1>4. CASE Recovering
  BY <1>4
  DEF Recovering, Reap, ReapHeps, HealthGate, Bounce, Recheck, cluster, bounds
<1>5. CASE Preparing
  <2>1. CASE PreClean
    BY <2>1 DEF PreClean, Looped, cluster, bounds
  <2>2. CASE Ensure
    BY <2>2 DEF Ensure, Looped, cluster, bounds
  <2>3. CASE StartObservers
    BY <2>3 DEF StartObservers, Looped, cluster, bounds
  <2> QED BY <1>5, <2>1, <2>2, <2>3 DEF Preparing
<1>6. CASE Applying
  BY <1>6
  DEF Applying, ApplyBase, ApplyNetsets, ApplyPolicy, cluster, bounds
<1>7. CASE Attaching
  BY <1>7
  DEF Attaching, NarrowFailsafes, ApplyPool, ApplyHeps, cluster, bounds
<1>8. CASE Probing
  BY <1>8
  DEF Probing, Settle, Predict, Probe, cluster, bounds
<1>9. CASE Detaching
  BY <1>9
  DEF Detaching, Cleanup, TdHeps, TdFlush, Tolerated, Lost, Kept, cluster, bounds
<1>10. CASE Deleting
  BY <1>10
  DEF Deleting, TdPolicy, TdPool, TdNetsets, TdNamespaces, Looped, Tolerated, Lost, cluster, bounds
<1>11. CASE UNCHANGED vars
  BY <1>11 DEF vars, cluster, process, bounds
<1> QED BY <1>1, <1>2, <1>3, <1>4, <1>5, <1>6, <1>7, <1>8, <1>9, <1>10, <1>11, StepsOfACase

\* So what is there besides the case's own cannot touch it.
LEMMA NoForeignKept ==
  ASSUME PlaceOK, CaseKnown, NoCluster, KindsKept, Emptied, NoForeign, [Next]_vars
  PROVE  NoForeign'
<1> USE CasesAssumption DEF PlaceOK, CaseKnown, NoCluster, KindsKept, Emptied, NoForeign, Foreign, Settled, Applied,
            Go, Fatal, Works
<1>1. CASE StartCase
  BY <1>1 DEF StartCase, cluster
<1>2. CASE Crash
  BY <1>2 DEF Crash, cluster
<1>3. CASE Repairing
  BY <1>3
  DEF Repairing, RepairList, RepairHeps, RepairPool, RepairFlush, cluster, bounds
<1>4. CASE Recovering
  BY <1>4
  DEF Recovering, Reap, ReapHeps, HealthGate, Bounce, Recheck, cluster, bounds
<1>5. CASE Preparing
  BY <1>5
  DEF Preparing, PreClean, Ensure, StartObservers, Looped, cluster, bounds
<1>6. CASE Applying
  <2>1. CASE ApplyBase
    BY <2>1 DEF ApplyBase, cluster, bounds
  <2>2. CASE ApplyNetsets
    BY <2>2 DEF ApplyNetsets, cluster, bounds
  <2>3. CASE ApplyPolicy
    BY <2>3 DEF ApplyPolicy, cluster, bounds
  <2> QED BY <1>6, <2>1, <2>2, <2>3 DEF Applying
<1>7. CASE Attaching
  BY <1>7
  DEF Attaching, NarrowFailsafes, ApplyPool, ApplyHeps, cluster, bounds
<1>8. CASE Probing
  BY <1>8
  DEF Probing, Settle, Predict, Probe, cluster, bounds
<1>9. CASE Detaching
  BY <1>9
  DEF Detaching, Cleanup, TdHeps, TdFlush, Tolerated, Lost, Kept, cluster, bounds
<1>10. CASE Deleting
  BY <1>10
  DEF Deleting, TdPolicy, TdPool, TdNetsets, TdNamespaces, Looped, Tolerated, Lost, cluster, bounds
<1>11. CASE UNCHANGED vars
  BY <1>11 DEF vars, cluster, process, bounds
<1> QED BY <1>1, <1>2, <1>3, <1>4, <1>5, <1>6, <1>7, <1>8, <1>9, <1>10, <1>11, StepsOfACase

CInv == PInv /\ Housed /\ KindsKept /\ NoCluster /\ Emptied /\ NoForeign

\* When listing and reaping are answered and cases keep apart, nothing an earlier case
\* left, however it ended, takes part when a case is probed.
THEOREM CaseCleanSlate ==
  ASSUME Answers, KeptApart
  PROVE  Spec => []CleanSlate
<1>1. Init => CInv
  BY InitPInv DEF Init, CInv, Housed, KindsKept, NoCluster, LastRepair, Emptied, NoForeign, Applied
<1>2. CInv /\ [Next]_vars => CInv'
  <2> SUFFICES ASSUME CInv, [Next]_vars PROVE CInv'
    OBVIOUS
  <2>1. PInv' /\ PlaceOK /\ CaseKnown /\ Homes
    BY NextPInv DEF CInv, PInv, HInv
  <2>2. Housed' /\ KindsKept' /\ NoCluster'
    BY <2>1, HousedKept, KindsKeptKept, NoClusterKept DEF CInv
  <2>3. Emptied' /\ NoForeign'
    BY <2>1, EmptiedKept, NoForeignKept DEF CInv
  <2> QED BY <2>1, <2>2, <2>3 DEF CInv
<1>3. CInv => CleanSlate
  BY DEF CInv, NoForeign, Applied, CleanSlate
<1> QED BY <1>1, <1>2, <1>3, PTL DEF Spec
-----------------------------------------------------------------------------
(* What a case that passed leaves *)

Green == ~ failed /\ ~ lost

Teardown == {"tdHeps", "tdFlush", "tdPolicy", "tdTier", "tdPool", "tdNetsets", "tdNamespaces"}

\* The teardown is still to run, or is running; or it is over.
ToTearDown == pc = "cleanup" /\ "teardown" \in cleanups
TornDown   == (pc = "cleanup" /\ "teardown" \notin cleanups) \/ (pc = "idle" /\ case # NoCase)

\* What the case applied is recorded, so that it is taken away.
Recorded ==
  /\ pc \in Applied \/ (~ failed /\ (ToTearDown \/ pc \in Teardown)) =>
       "policy" \in applied /\ (case.netset => "netset" \in applied)
  /\ pc = "policy" => (case.netset => "netset" \in applied)
  /\ pc = "heps" => NoNodePool \/ "pool" \in applied
  /\ pc \in Settled \/ (~ failed /\ (ToTearDown \/ pc \in Teardown)) =>
       (case.hep => "hep" \in applied /\ (NoNodePool \/ "pool" \in applied))
Registered == pc \in Applied \cup {"base", "netsets", "policy"} => "teardown" \in cleanups
Watched ==
  /\ \A c \in Cases : c.name \in observers => c.observer
  /\ Green /\ case \in Cases /\
     pc \in Applied \cup Teardown \cup {"base", "netsets", "policy", "cleanup"} =>
       (case.name \in observers => "observers" \in cleanups)
  /\ Green /\ pc = "idle" /\ case \in Cases => case.name \notin observers
PoolUnused == NoNodePool => pc # "pool" /\ ~ pool

PoliciesGone ==
  /\ Green /\ pc = "tdTier" => (\A p \in policies : p.of = case.name => p.kind = "tier")
  /\ Green /\ (pc \in {"tdPool", "tdNetsets", "tdNamespaces"} \/ TornDown) =>
       ~ \E p \in policies : p.of = case.name
SetsGone ==
  /\ Green /\ (ToTearDown \/ pc \in Teardown \ {"tdNamespaces"}) =>
       (~ case.netset => case.name \notin netsets)
  /\ Green /\ (pc = "tdNamespaces" \/ TornDown) => case.name \notin netsets
HepsGone ==
  Green /\ (pc \in Teardown \ {"tdHeps"} \/ TornDown) =>
    case.name \notin heps /\ (case.hep => pc = "tdFlush" \/ ~ stale)
PoolGone == Green /\ (pc \in {"tdNetsets", "tdNamespaces"} \/ TornDown) => (case.hep => ~ pool)
SpacesGone ==
  /\ Green /\ pc = "tdNamespaces" => owned \cap ns \subseteq todo
  /\ Green /\ TornDown => owned \cap ns = {}

\* Each manifest is recorded before it is applied, and a case that passes applied all of its own.
LEMMA RecordedKept ==
  ASSUME PlaceOK, HepSteps, Recorded, [Next]_vars
  PROVE  Recorded'
<1> USE DEF PlaceOK, HepSteps, Recorded, Settled, Applied, ToTearDown, Teardown,
            Go, Fatal, Works
<1>1. CASE StartCase
  BY <1>1 DEF StartCase, cluster
<1>2. CASE Crash
  BY <1>2 DEF Crash, cluster
<1>3. CASE Repairing
  BY <1>3
  DEF Repairing, RepairList, RepairHeps, RepairPool, RepairFlush, cluster, bounds
<1>4. CASE Recovering
  BY <1>4
  DEF Recovering, Reap, ReapHeps, HealthGate, Bounce, Recheck, cluster, bounds
<1>5. CASE Preparing
  BY <1>5
  DEF Preparing, PreClean, Ensure, StartObservers, Looped, cluster, bounds
<1>6. CASE Applying
  BY <1>6
  DEF Applying, ApplyBase, ApplyNetsets, ApplyPolicy, cluster, bounds
<1>7. CASE Attaching
  BY <1>7
  DEF Attaching, NarrowFailsafes, ApplyPool, ApplyHeps, cluster, bounds
<1>8. CASE Probing
  BY <1>8
  DEF Probing, Settle, Predict, Probe, cluster, bounds
<1>9. CASE Detaching
  BY <1>9
  DEF Detaching, Cleanup, TdHeps, TdFlush, Tolerated, Lost, Kept, cluster, bounds
<1>10. CASE Deleting
  BY <1>10
  DEF Deleting, TdPolicy, TdPool, TdNetsets, TdNamespaces, Looped, Tolerated, Lost, cluster, bounds
<1>11. CASE UNCHANGED vars
  BY <1>11 DEF vars, cluster, process, bounds
<1> QED BY <1>1, <1>2, <1>3, <1>4, <1>5, <1>6, <1>7, <1>8, <1>9, <1>10, <1>11, StepsOfACase

\* The teardown is registered before the case applies anything.
LEMMA RegisteredKept ==
  ASSUME PlaceOK, Registered, [Next]_vars
  PROVE  Registered'
<1> USE DEF PlaceOK, Registered, Settled, Applied, ToTearDown, Teardown,
            Go, Fatal, Works
<1>1. CASE StartCase
  BY <1>1 DEF StartCase, cluster
<1>2. CASE Crash
  BY <1>2 DEF Crash, cluster
<1>3. CASE Repairing
  BY <1>3
  DEF Repairing, RepairList, RepairHeps, RepairPool, RepairFlush, cluster, bounds
<1>4. CASE Recovering
  BY <1>4
  DEF Recovering, Reap, ReapHeps, HealthGate, Bounce, Recheck, cluster, bounds
<1>5. CASE Preparing
  BY <1>5
  DEF Preparing, PreClean, Ensure, StartObservers, Looped, cluster, bounds
<1>6. CASE Applying
  BY <1>6
  DEF Applying, ApplyBase, ApplyNetsets, ApplyPolicy, cluster, bounds
<1>7. CASE Attaching
  BY <1>7
  DEF Attaching, NarrowFailsafes, ApplyPool, ApplyHeps, cluster, bounds
<1>8. CASE Probing
  BY <1>8
  DEF Probing, Settle, Predict, Probe, cluster, bounds
<1>9. CASE Detaching
  BY <1>9
  DEF Detaching, Cleanup, TdHeps, TdFlush, Tolerated, Lost, Kept, cluster, bounds
<1>10. CASE Deleting
  BY <1>10
  DEF Deleting, TdPolicy, TdPool, TdNetsets, TdNamespaces, Looped, Tolerated, Lost, cluster, bounds
<1>11. CASE UNCHANGED vars
  BY <1>11 DEF vars, cluster, process, bounds
<1> QED BY <1>1, <1>2, <1>3, <1>4, <1>5, <1>6, <1>7, <1>8, <1>9, <1>10, <1>11, StepsOfACase

\* Only a case with containers starts any, and their cleanup is registered first.
LEMMA WatchedKept ==
  ASSUME PlaceOK, CaseKnown, Watched, [Next]_vars
  PROVE  Watched'
<1> USE CasesAssumption DEF PlaceOK, CaseKnown, Watched, Settled, Applied, Green, ToTearDown, TornDown, Teardown,
            Go, Fatal, Works
<1>1. CASE StartCase
  BY <1>1 DEF StartCase, cluster
<1>2. CASE Crash
  BY <1>2 DEF Crash, cluster
<1>3. CASE Repairing
  BY <1>3
  DEF Repairing, RepairList, RepairHeps, RepairPool, RepairFlush, cluster, bounds
<1>4. CASE Recovering
  BY <1>4
  DEF Recovering, Reap, ReapHeps, HealthGate, Bounce, Recheck, cluster, bounds
<1>5. CASE Preparing
  <2>1. CASE PreClean
    BY <2>1 DEF PreClean, Looped, cluster, bounds
  <2>2. CASE Ensure
    BY <2>2 DEF Ensure, Looped, cluster, bounds
  <2>3. CASE StartObservers
    BY <2>3 DEF StartObservers, Looped, cluster, bounds
  <2> QED BY <1>5, <2>1, <2>2, <2>3 DEF Preparing
<1>6. CASE Applying
  BY <1>6
  DEF Applying, ApplyBase, ApplyNetsets, ApplyPolicy, cluster, bounds
<1>7. CASE Attaching
  BY <1>7
  DEF Attaching, NarrowFailsafes, ApplyPool, ApplyHeps, cluster, bounds
<1>8. CASE Probing
  BY <1>8
  DEF Probing, Settle, Predict, Probe, cluster, bounds
<1>9. CASE Detaching
  <2>1. CASE Cleanup
    BY <2>1 DEF Cleanup, Tolerated, Lost, Kept, cluster, bounds
  <2>2. CASE TdHeps
    BY <2>2 DEF TdHeps, Tolerated, Lost, Kept, cluster, bounds
  <2>3. CASE TdFlush
    BY <2>3 DEF TdFlush, Tolerated, Lost, Kept, cluster, bounds
  <2> QED BY <1>9, <2>1, <2>2, <2>3 DEF Detaching
<1>10. CASE Deleting
  BY <1>10
  DEF Deleting, TdPolicy, TdPool, TdNetsets, TdNamespaces, Looped, Tolerated, Lost, cluster, bounds
<1>11. CASE UNCHANGED vars
  BY <1>11 DEF vars, cluster, process, bounds
<1> QED BY <1>1, <1>2, <1>3, <1>4, <1>5, <1>6, <1>7, <1>8, <1>9, <1>10, <1>11, StepsOfACase

\* A run that does without the pool never makes it.
LEMMA PoolUnusedKept ==
  ASSUME PlaceOK, PoolUnused, [Next]_vars
  PROVE  PoolUnused'
<1> USE DEF PlaceOK, PoolUnused,
            Go, Fatal, Works
<1>1. CASE StartCase
  BY <1>1 DEF StartCase, cluster
<1>2. CASE Crash
  BY <1>2 DEF Crash, cluster
<1>3. CASE Repairing
  BY <1>3
  DEF Repairing, RepairList, RepairHeps, RepairPool, RepairFlush, cluster, bounds
<1>4. CASE Recovering
  BY <1>4
  DEF Recovering, Reap, ReapHeps, HealthGate, Bounce, Recheck, cluster, bounds
<1>5. CASE Preparing
  BY <1>5
  DEF Preparing, PreClean, Ensure, StartObservers, Looped, cluster, bounds
<1>6. CASE Applying
  BY <1>6
  DEF Applying, ApplyBase, ApplyNetsets, ApplyPolicy, cluster, bounds
<1>7. CASE Attaching
  BY <1>7
  DEF Attaching, NarrowFailsafes, ApplyPool, ApplyHeps, cluster, bounds
<1>8. CASE Probing
  BY <1>8
  DEF Probing, Settle, Predict, Probe, cluster, bounds
<1>9. CASE Detaching
  BY <1>9
  DEF Detaching, Cleanup, TdHeps, TdFlush, Tolerated, Lost, Kept, cluster, bounds
<1>10. CASE Deleting
  BY <1>10
  DEF Deleting, TdPolicy, TdPool, TdNetsets, TdNamespaces, Looped, Tolerated, Lost, cluster, bounds
<1>11. CASE UNCHANGED vars
  BY <1>11 DEF vars, cluster, process, bounds
<1> QED BY <1>1, <1>2, <1>3, <1>4, <1>5, <1>6, <1>7, <1>8, <1>9, <1>10, <1>11, StepsOfACase

\* The policies of a case on the cluster are policies of its manifest.
LEMMA OfItsManifest ==
  ASSUME ClusterOK, NEW c \in Cases, NEW p \in policies, p.of = c.name
  PROVE  p \in c.policies
BY CasesAssumption DEF ClusterOK, AllPolicies

\* The first pass over the manifest leaves its tiers, the second nothing.
LEMMA TwoPasses ==
  ASSUME ClusterOK, NEW c \in Cases
  PROVE  /\ \A p \in Undeleted(c.policies) : p.of = c.name => p.kind = "tier"
         /\ (\A p \in policies : p.of = c.name => p.kind = "tier") =>
              ~ \E p \in Undeleted(c.policies) : p.of = c.name
<1>1. \A p \in policies : p.of = c.name => p \in c.policies
  BY OfItsManifest
<1> QED BY <1>1 DEF Undeleted

\* So after both passes none of the case's policies is left, and nothing brings one back.
LEMMA PoliciesGoneKept ==
  ASSUME PlaceOK, CaseKnown, ClusterOK, Recorded, Registered, PoliciesGone, [Next]_vars
  PROVE  PoliciesGone'
<1> USE TwoPasses, CasesAssumption DEF PlaceOK, CaseKnown, Recorded, Registered, PoliciesGone, Without, Settled, Applied, Green, ToTearDown, TornDown, Teardown,
            Go, Fatal, Works
<1>1. CASE StartCase
  BY <1>1 DEF StartCase, cluster
<1>2. CASE Crash
  BY <1>2 DEF Crash, cluster
<1>3. CASE Repairing
  BY <1>3
  DEF Repairing, RepairList, RepairHeps, RepairPool, RepairFlush, cluster, bounds
<1>4. CASE Recovering
  BY <1>4
  DEF Recovering, Reap, ReapHeps, HealthGate, Bounce, Recheck, cluster, bounds
<1>5. CASE Preparing
  BY <1>5
  DEF Preparing, PreClean, Ensure, StartObservers, Looped, cluster, bounds
<1>6. CASE Applying
  BY <1>6
  DEF Applying, ApplyBase, ApplyNetsets, ApplyPolicy, cluster, bounds
<1>7. CASE Attaching
  BY <1>7
  DEF Attaching, NarrowFailsafes, ApplyPool, ApplyHeps, cluster, bounds
<1>8. CASE Probing
  <2>1. CASE Settle
    BY <2>1 DEF Settle, cluster, bounds
  <2>2. CASE Predict
    BY <2>2 DEF Predict, cluster, bounds
  <2>3. CASE Probe
    BY <2>3 DEF Probe, cluster, bounds
  <2> QED BY <1>8, <2>1, <2>2, <2>3 DEF Probing
<1>9. CASE Detaching
  <2>1. CASE Cleanup
    BY <2>1 DEF Cleanup, Tolerated, Lost, Kept, cluster, bounds
  <2>2. CASE TdHeps
    BY <2>2 DEF TdHeps, Tolerated, Lost, Kept, cluster, bounds
  <2>3. CASE TdFlush
    BY <2>3 DEF TdFlush, Tolerated, Lost, Kept, cluster, bounds
  <2> QED BY <1>9, <2>1, <2>2, <2>3 DEF Detaching
<1>10. CASE Deleting
  <2>1. CASE TdPolicy
    BY <2>1 DEF TdPolicy, Looped, Tolerated, Lost, cluster, bounds
  <2>2. CASE TdPool
    BY <2>2 DEF TdPool, Looped, Tolerated, Lost, cluster, bounds
  <2>3. CASE TdNetsets
    BY <2>3 DEF TdNetsets, Looped, Tolerated, Lost, cluster, bounds
  <2>4. CASE TdNamespaces
    BY <2>4 DEF TdNamespaces, Looped, Tolerated, Lost, cluster, bounds
  <2> QED BY <1>10, <2>1, <2>2, <2>3, <2>4 DEF Deleting
<1>11. CASE UNCHANGED vars
  BY <1>11 DEF vars, cluster, process, bounds
<1> QED BY <1>1, <1>2, <1>3, <1>4, <1>5, <1>6, <1>7, <1>8, <1>9, <1>10, <1>11, StepsOfACase

\* The sets are the case's own, and are taken away with their manifest.
LEMMA SetsGoneKept ==
  ASSUME PlaceOK, CaseKnown, ClusterOK, Recorded, Registered, OwnSets, SetsGone, [Next]_vars
  PROVE  SetsGone'
<1> USE CasesAssumption DEF PlaceOK, CaseKnown, Recorded, Registered, OwnSets, SetsGone, Settled, Applied, Green, ToTearDown, TornDown, Teardown,
            Go, Fatal, Works
<1>1. CASE StartCase
  BY <1>1 DEF StartCase, cluster
<1>2. CASE Crash
  BY <1>2 DEF Crash, cluster
<1>3. CASE Repairing
  BY <1>3
  DEF Repairing, RepairList, RepairHeps, RepairPool, RepairFlush, cluster, bounds
<1>4. CASE Recovering
  BY <1>4
  DEF Recovering, Reap, ReapHeps, HealthGate, Bounce, Recheck, cluster, bounds
<1>5. CASE Preparing
  BY <1>5
  DEF Preparing, PreClean, Ensure, StartObservers, Looped, cluster, bounds
<1>6. CASE Applying
  BY <1>6
  DEF Applying, ApplyBase, ApplyNetsets, ApplyPolicy, cluster, bounds
<1>7. CASE Attaching
  BY <1>7
  DEF Attaching, NarrowFailsafes, ApplyPool, ApplyHeps, cluster, bounds
<1>8. CASE Probing
  <2>1. CASE Settle
    BY <2>1 DEF Settle, cluster, bounds
  <2>2. CASE Predict
    BY <2>2 DEF Predict, cluster, bounds
  <2>3. CASE Probe
    BY <2>3 DEF Probe, cluster, bounds
  <2> QED BY <1>8, <2>1, <2>2, <2>3 DEF Probing
<1>9. CASE Detaching
  <2>1. CASE Cleanup
    BY <2>1 DEF Cleanup, Tolerated, Lost, Kept, cluster, bounds
  <2>2. CASE TdHeps
    BY <2>2 DEF TdHeps, Tolerated, Lost, Kept, cluster, bounds
  <2>3. CASE TdFlush
    BY <2>3 DEF TdFlush, Tolerated, Lost, Kept, cluster, bounds
  <2> QED BY <1>9, <2>1, <2>2, <2>3 DEF Detaching
<1>10. CASE Deleting
  <2>1. CASE TdPolicy
    BY <2>1 DEF TdPolicy, Looped, Tolerated, Lost, cluster, bounds
  <2>2. CASE TdPool
    BY <2>2 DEF TdPool, Looped, Tolerated, Lost, cluster, bounds
  <2>3. CASE TdNetsets
    BY <2>3 DEF TdNetsets, Looped, Tolerated, Lost, cluster, bounds
  <2>4. CASE TdNamespaces
    BY <2>4 DEF TdNamespaces, Looped, Tolerated, Lost, cluster, bounds
  <2> QED BY <1>10, <2>1, <2>2, <2>3, <2>4 DEF Deleting
<1>11. CASE UNCHANGED vars
  BY <1>11 DEF vars, cluster, process, bounds
<1> QED BY <1>1, <1>2, <1>3, <1>4, <1>5, <1>6, <1>7, <1>8, <1>9, <1>10, <1>11, StepsOfACase

\* The HostEndpoints go first, with the connections they had.
LEMMA HepsGoneKept ==
  ASSUME PlaceOK, CaseKnown, ClusterOK, Recorded, Registered, OwnHeps, HepsGone, [Next]_vars
  PROVE  HepsGone'
<1> USE CasesAssumption DEF PlaceOK, CaseKnown, Recorded, Registered, OwnHeps, HepsGone, Settled, Applied, Green, ToTearDown, TornDown, Teardown,
            Go, Fatal, Works
<1>1. CASE StartCase
  BY <1>1 DEF StartCase, cluster
<1>2. CASE Crash
  BY <1>2 DEF Crash, cluster
<1>3. CASE Repairing
  BY <1>3
  DEF Repairing, RepairList, RepairHeps, RepairPool, RepairFlush, cluster, bounds
<1>4. CASE Recovering
  BY <1>4
  DEF Recovering, Reap, ReapHeps, HealthGate, Bounce, Recheck, cluster, bounds
<1>5. CASE Preparing
  BY <1>5
  DEF Preparing, PreClean, Ensure, StartObservers, Looped, cluster, bounds
<1>6. CASE Applying
  BY <1>6
  DEF Applying, ApplyBase, ApplyNetsets, ApplyPolicy, cluster, bounds
<1>7. CASE Attaching
  BY <1>7
  DEF Attaching, NarrowFailsafes, ApplyPool, ApplyHeps, cluster, bounds
<1>8. CASE Probing
  <2>1. CASE Settle
    BY <2>1 DEF Settle, cluster, bounds
  <2>2. CASE Predict
    BY <2>2 DEF Predict, cluster, bounds
  <2>3. CASE Probe
    BY <2>3 DEF Probe, cluster, bounds
  <2> QED BY <1>8, <2>1, <2>2, <2>3 DEF Probing
<1>9. CASE Detaching
  <2>1. CASE Cleanup
    BY <2>1 DEF Cleanup, Tolerated, Lost, Kept, cluster, bounds
  <2>2. CASE TdHeps
    BY <2>2 DEF TdHeps, Tolerated, Lost, Kept, cluster, bounds
  <2>3. CASE TdFlush
    BY <2>3 DEF TdFlush, Tolerated, Lost, Kept, cluster, bounds
  <2> QED BY <1>9, <2>1, <2>2, <2>3 DEF Detaching
<1>10. CASE Deleting
  <2>1. CASE TdPolicy
    BY <2>1 DEF TdPolicy, Looped, Tolerated, Lost, cluster, bounds
  <2>2. CASE TdPool
    BY <2>2 DEF TdPool, Looped, Tolerated, Lost, cluster, bounds
  <2>3. CASE TdNetsets
    BY <2>3 DEF TdNetsets, Looped, Tolerated, Lost, cluster, bounds
  <2>4. CASE TdNamespaces
    BY <2>4 DEF TdNamespaces, Looped, Tolerated, Lost, cluster, bounds
  <2> QED BY <1>10, <2>1, <2>2, <2>3, <2>4 DEF Deleting
<1>11. CASE UNCHANGED vars
  BY <1>11 DEF vars, cluster, process, bounds
<1> QED BY <1>1, <1>2, <1>3, <1>4, <1>5, <1>6, <1>7, <1>8, <1>9, <1>10, <1>11, StepsOfACase

\* The pool of a case with HostEndpoints goes, if the run made one.
LEMMA PoolGoneKept ==
  ASSUME PlaceOK, CaseKnown, ClusterOK, Recorded, Registered, PoolUnused, PoolGone, [Next]_vars
  PROVE  PoolGone'
<1> USE CasesAssumption DEF PlaceOK, CaseKnown, Recorded, Registered, PoolUnused, PoolGone, Settled, Applied, Green, ToTearDown, TornDown, Teardown,
            Go, Fatal, Works
<1>1. CASE StartCase
  BY <1>1 DEF StartCase, cluster
<1>2. CASE Crash
  BY <1>2 DEF Crash, cluster
<1>3. CASE Repairing
  BY <1>3
  DEF Repairing, RepairList, RepairHeps, RepairPool, RepairFlush, cluster, bounds
<1>4. CASE Recovering
  BY <1>4
  DEF Recovering, Reap, ReapHeps, HealthGate, Bounce, Recheck, cluster, bounds
<1>5. CASE Preparing
  BY <1>5
  DEF Preparing, PreClean, Ensure, StartObservers, Looped, cluster, bounds
<1>6. CASE Applying
  BY <1>6
  DEF Applying, ApplyBase, ApplyNetsets, ApplyPolicy, cluster, bounds
<1>7. CASE Attaching
  BY <1>7
  DEF Attaching, NarrowFailsafes, ApplyPool, ApplyHeps, cluster, bounds
<1>8. CASE Probing
  <2>1. CASE Settle
    BY <2>1 DEF Settle, cluster, bounds
  <2>2. CASE Predict
    BY <2>2 DEF Predict, cluster, bounds
  <2>3. CASE Probe
    BY <2>3 DEF Probe, cluster, bounds
  <2> QED BY <1>8, <2>1, <2>2, <2>3 DEF Probing
<1>9. CASE Detaching
  <2>1. CASE Cleanup
    BY <2>1 DEF Cleanup, Tolerated, Lost, Kept, cluster, bounds
  <2>2. CASE TdHeps
    BY <2>2 DEF TdHeps, Tolerated, Lost, Kept, cluster, bounds
  <2>3. CASE TdFlush
    BY <2>3 DEF TdFlush, Tolerated, Lost, Kept, cluster, bounds
  <2> QED BY <1>9, <2>1, <2>2, <2>3 DEF Detaching
<1>10. CASE Deleting
  <2>1. CASE TdPolicy
    BY <2>1 DEF TdPolicy, Looped, Tolerated, Lost, cluster, bounds
  <2>2. CASE TdPool
    BY <2>2 DEF TdPool, Looped, Tolerated, Lost, cluster, bounds
  <2>3. CASE TdNetsets
    BY <2>3 DEF TdNetsets, Looped, Tolerated, Lost, cluster, bounds
  <2>4. CASE TdNamespaces
    BY <2>4 DEF TdNamespaces, Looped, Tolerated, Lost, cluster, bounds
  <2> QED BY <1>10, <2>1, <2>2, <2>3, <2>4 DEF Deleting
<1>11. CASE UNCHANGED vars
  BY <1>11 DEF vars, cluster, process, bounds
<1> QED BY <1>1, <1>2, <1>3, <1>4, <1>5, <1>6, <1>7, <1>8, <1>9, <1>10, <1>11, StepsOfACase

\* The namespaces the case made go one by one.
LEMMA SpacesGoneKept ==
  ASSUME PlaceOK, CaseKnown, ClusterOK, Recorded, Registered, SpacesGone, [Next]_vars
  PROVE  SpacesGone'
<1> USE CasesAssumption DEF PlaceOK, CaseKnown, Recorded, Registered, SpacesGone, Settled, Applied, Green, ToTearDown, TornDown, Teardown,
            Go, Fatal, Works
<1>1. CASE StartCase
  BY <1>1 DEF StartCase, cluster
<1>2. CASE Crash
  BY <1>2 DEF Crash, cluster
<1>3. CASE Repairing
  BY <1>3
  DEF Repairing, RepairList, RepairHeps, RepairPool, RepairFlush, cluster, bounds
<1>4. CASE Recovering
  BY <1>4
  DEF Recovering, Reap, ReapHeps, HealthGate, Bounce, Recheck, cluster, bounds
<1>5. CASE Preparing
  BY <1>5
  DEF Preparing, PreClean, Ensure, StartObservers, Looped, cluster, bounds
<1>6. CASE Applying
  BY <1>6
  DEF Applying, ApplyBase, ApplyNetsets, ApplyPolicy, cluster, bounds
<1>7. CASE Attaching
  BY <1>7
  DEF Attaching, NarrowFailsafes, ApplyPool, ApplyHeps, cluster, bounds
<1>8. CASE Probing
  <2>1. CASE Settle
    BY <2>1 DEF Settle, cluster, bounds
  <2>2. CASE Predict
    BY <2>2 DEF Predict, cluster, bounds
  <2>3. CASE Probe
    BY <2>3 DEF Probe, cluster, bounds
  <2> QED BY <1>8, <2>1, <2>2, <2>3 DEF Probing
<1>9. CASE Detaching
  <2>1. CASE Cleanup
    BY <2>1 DEF Cleanup, Tolerated, Lost, Kept, cluster, bounds
  <2>2. CASE TdHeps
    BY <2>2 DEF TdHeps, Tolerated, Lost, Kept, cluster, bounds
  <2>3. CASE TdFlush
    BY <2>3 DEF TdFlush, Tolerated, Lost, Kept, cluster, bounds
  <2> QED BY <1>9, <2>1, <2>2, <2>3 DEF Detaching
<1>10. CASE Deleting
  <2>1. CASE TdPolicy
    BY <2>1 DEF TdPolicy, Looped, Tolerated, Lost, cluster, bounds
  <2>2. CASE TdPool
    BY <2>2 DEF TdPool, Looped, Tolerated, Lost, cluster, bounds
  <2>3. CASE TdNetsets
    BY <2>3 DEF TdNetsets, Looped, Tolerated, Lost, cluster, bounds
  <2>4. CASE TdNamespaces
    BY <2>4 DEF TdNamespaces, Looped, Tolerated, Lost, cluster, bounds
  <2> QED BY <1>10, <2>1, <2>2, <2>3, <2>4 DEF Deleting
<1>11. CASE UNCHANGED vars
  BY <1>11 DEF vars, cluster, process, bounds
<1> QED BY <1>1, <1>2, <1>3, <1>4, <1>5, <1>6, <1>7, <1>8, <1>9, <1>10, <1>11, StepsOfACase

GInv ==
  /\ TInv /\ PInv /\ Recorded /\ Registered /\ Watched /\ PoolUnused
  /\ PoliciesGone /\ SetsGone /\ HepsGone /\ PoolGone /\ SpacesGone

\* When listing and reaping are answered, a case that passed and none of whose cleanups
\* failed leaves nothing of its own behind, whatever cases ran and died before it.
THEOREM CaseGreenGone ==
  ASSUME Answers
  PROVE  Spec => []GreenCaseGone
<1>1. Init => GInv
  <2> SUFFICES ASSUME Init PROVE GInv
    OBVIOUS
  <2>1. TInv /\ PInv
    BY InitTInv, InitPInv
  <2>2. Recorded /\ Registered /\ Watched /\ PoolUnused
    BY CasesAssumption DEF Init, Recorded, Registered, Watched, PoolUnused, Settled, Applied, ToTearDown,
       Teardown
  <2>3. PoliciesGone /\ SetsGone /\ HepsGone /\ PoolGone /\ SpacesGone
    BY DEF Init, PoliciesGone, SetsGone, HepsGone, PoolGone, SpacesGone, ToTearDown, TornDown,
       Teardown
  <2> QED BY <2>1, <2>2, <2>3 DEF GInv
<1>2. GInv /\ [Next]_vars => GInv'
  <2> SUFFICES ASSUME GInv, [Next]_vars PROVE GInv'
    OBVIOUS
  <2>1. /\ TInv' /\ PInv' /\ PlaceOK /\ CaseKnown /\ ClusterOK
        /\ OwnSets /\ OwnHeps /\ HepSteps /\ Recorded /\ Registered
    BY NextTInv, NextPInv DEF GInv, PInv, HInv, TInv
  <2>2. Recorded' /\ Registered'
    BY <2>1, RecordedKept, RegisteredKept
  <2>3. Watched' /\ PoolUnused'
    BY <2>1, WatchedKept, PoolUnusedKept DEF GInv
  <2>4. PoliciesGone' /\ SetsGone' /\ HepsGone'
    BY <2>1, PoliciesGoneKept, SetsGoneKept, HepsGoneKept DEF GInv
  <2>5. PoolGone' /\ SpacesGone'
    BY <2>1, PoolGoneKept, SpacesGoneKept DEF GInv
  <2> QED BY <2>1, <2>2, <2>3, <2>4, <2>5 DEF GInv
<1>3. GInv => GreenCaseGone
  <2> SUFFICES ASSUME GInv, pc = "idle", case # NoCase, Green PROVE GreenCaseGone
    BY DEF GreenCaseGone, Green
  <2>1. case \in Cases
    BY DEF GInv, TInv, PlaceOK
  <2>2. TornDown
    BY DEF TornDown
  <2>3. /\ ~ \E p \in policies : p.of = case.name
        /\ case.name \notin netsets /\ case.name \notin heps /\ (case.hep => ~ stale)
        /\ (case.hep => ~ pool) /\ owned \cap ns = {}
    BY <2>2 DEF GInv, PoliciesGone, SetsGone, HepsGone, PoolGone, SpacesGone
  <2>4. case.name \notin observers
    BY <2>1 DEF GInv, Watched
  <2> QED BY <2>3, <2>4 DEF GreenCaseGone
<1> QED BY <1>1, <1>2, <1>3, PTL DEF Spec
=============================================================================
