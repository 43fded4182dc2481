--------------------------- MODULE CaseLifecycle ---------------------------
(***************************************************************************)
(* The life of end-to-end cases on one shared cluster (e2e/e2e_test.go     *)
(* runCase and ensureClusterHealthy, e2e/hep.go, e2e/cluster.go): what a   *)
(* case puts on the cluster and in which order, what its cleanups take     *)
(* away, and what the next case repairs when a kubectl call failed or the  *)
(* whole test process died in between.  The provider is calico.            *)
(*                                                                         *)
(* A case is a record                                                      *)
(*   name, ns : its namespaces      hep : it has HostEndpoints             *)
(*   policies : the objects of policy.yaml, [of, kind, ns], of kind        *)
(*     "cluster" (GlobalNetworkPolicy), "tier", "admin" (the cluster-wide  *)
(*     kinds of Kubernetes) or "namespaced"                                *)
(*   netset : it has GlobalNetworkSets   observer : it has containers      *)
(* Pods, their addresses and the skip gates that touch nothing are left    *)
(* out.  A call that fails may or may not have had its effect.             *)
(***************************************************************************)
EXTENDS Naturals, FiniteSets

CONSTANTS
  Cases, NoCase,
  Protected,      \* the system namespaces (protectedNamespaces)
  Keep,           \* the settings of E2E_KEEP a test process may run with
  IncludeHEP,     \* cfg.IncludeHEP
  NoNodePool,     \* cfg.NoNodePool
  Faulty,         \* the calls that may fail
  MaxFaults, MaxCrashes, MaxCases

Kinds == {"cluster", "tier", "admin", "namespaced"}
Steps ==
  {"idle", "repair", "repairHeps", "repairPool", "repairFlush", "reap", "reapHeps", "gate",
   "bounce", "reapAgain", "reapHepsAgain", "recheck", "preclean", "ensure", "observers",
   "base", "netsets", "policy", "narrow", "pool", "heps", "settle", "predict", "probe",
   "cleanup", "tdHeps", "tdFlush", "tdPolicy", "tdTier", "tdPool", "tdNetsets",
   "tdNamespaces"}

ASSUME CasesAssumption ==
  /\ NoCase \notin Cases
  /\ \A c \in Cases :
       /\ c.hep \in BOOLEAN /\ c.netset \in BOOLEAN /\ c.observer \in BOOLEAN
       /\ \A p \in c.policies : p.of = c.name /\ p.kind \in Kinds
  /\ \A c, d \in Cases : c.name = d.name => c = d   \* the name of its directory
  /\ Keep \subseteq BOOLEAN /\ IncludeHEP \in BOOLEAN /\ NoNodePool \in BOOLEAN
  /\ MaxFaults \in Nat /\ MaxCrashes \in Nat /\ MaxCases \in Nat

VARIABLES
  \* the cluster
  ns,             \* the namespaces there are
  policies, netsets, heps, observers,   \* heps, netsets, observers: cases' names
  pool,           \* the node-subnet IPPool is there
  narrowed,       \* the failsafes are narrowed
  stale,          \* conntrack entries older than the last change of HostEndpoints
  \* the test process
  pc, case,
  todo,           \* namespaces the running loop has not reached
  owned,          \* createdNS
  applied,        \* the manifests recorded for teardown
  cleanups,       \* the t.Cleanup functions registered
  after,          \* where repairLeakedHEPState returns to
  failed,         \* t.Failed()
  keep,           \* cfg.KeepOnFailure
  \* bounds and history
  faults, crashes, started,
  lost            \* a cleanup call of this case failed

cluster == <<ns, policies, netsets, heps, observers, pool, narrowed, stale>>
process == <<pc, case, todo, owned, applied, cleanups, after, failed>>
bounds  == <<faults, crashes, started, lost>>
vars    == <<cluster, process, keep, bounds>>

Init ==
  /\ ns = Protected
  /\ policies = {} /\ netsets = {} /\ heps = {} /\ observers = {}
  /\ pool = FALSE /\ narrowed = FALSE /\ stale = FALSE
  /\ pc = "idle" /\ case = NoCase /\ todo = {} /\ owned = {} /\ applied = {}
  /\ cleanups = {} /\ after = "reap" /\ failed = FALSE
  /\ keep \in Keep
  /\ faults = 0 /\ crashes = 0 /\ started = 0 /\ lost = FALSE
-----------------------------------------------------------------------------
\* One call of kubectl or docker: it works, or this one fails.
Works       == UNCHANGED faults
Fails(call) == call \in Faulty /\ faults < MaxFaults /\ faults' = faults + 1

Go(next) == pc' = next /\ UNCHANGED <<failed, keep>>

\* t.Fatalf: the registered cleanups run next.
Fatal == pc' = "cleanup" /\ failed' = TRUE /\ UNCHANGED keep

\* Deleting a namespace takes the policies in it along.
Without(n) == {p \in policies : p.kind # "namespaced" \/ p.ns # n}

\* What one delete of a manifest leaves: a tier is refused while it has policies.
Undeleted(objects) ==
  {p \in policies : p \in objects =>
     p.kind = "tier" /\ \E q \in policies : q.kind = "cluster" /\ q.of = p.of}
-----------------------------------------------------------------------------
(* A case begins *)

StartCase ==
  /\ pc = "idle"
  /\ started < MaxCases
  /\ \E c \in Cases :
       /\ c.hep => IncludeHEP
       /\ case' = c
       /\ pc' = "repair"
  /\ after' = "reap" /\ todo' = {} /\ owned' = {} /\ applied' = {} /\ cleanups' = {}
  /\ failed' = FALSE /\ lost' = FALSE
  /\ started' = started + 1
  /\ UNCHANGED <<cluster, keep, faults, crashes>>

\* repairLeakedHEPState lists the HostEndpoints; no answer is only logged.
RepairList ==
  /\ pc = "repair"
  /\ \/ Works /\ Go(IF heps = {} THEN after ELSE "repairHeps")
     \/ Fails("list") /\ Go(after)
     \/ Fails("crd") /\ Fatal
  /\ UNCHANGED <<cluster, case, todo, owned, applied, cleanups, after,
                 crashes, started, lost>>

RepairHeps ==
  /\ pc = "repairHeps"
  /\ \/ Works /\ heps' = {} /\ stale' = TRUE /\ Go("repairPool")
     \/ Fails("delete") /\ heps' \in {heps, {}} /\ stale' = TRUE /\ Fatal
  /\ UNCHANGED <<ns, policies, netsets, observers, pool, narrowed, case, todo, owned,
                 applied, cleanups, after, crashes, started, lost>>

RepairPool ==
  /\ pc = "repairPool"
  /\ \/ Works /\ pool' = FALSE
     \/ Fails("delete") /\ pool' \in {pool, FALSE}
  /\ Go("repairFlush")
  /\ UNCHANGED <<ns, policies, netsets, heps, observers, narrowed, stale, case, todo, owned,
                 applied, cleanups, after, crashes, started, lost>>

RepairFlush ==
  /\ pc = "repairFlush"
  /\ stale' = FALSE
  /\ Go(after)
  /\ UNCHANGED <<ns, policies, netsets, heps, observers, pool, narrowed, case, todo, owned,
                 applied, cleanups, after, bounds>>

\* Variant: the kinds listed for deletion lack the policies.
Reap_NoPolicies ==
  /\ pc \in {"reap", "reapAgain"}
  /\ \/ Works /\ netsets' = {}
     \/ Fails("reap") /\ UNCHANGED netsets
  /\ Go(IF pc = "reap" THEN "reapHeps" ELSE "reapHepsAgain")
  /\ UNCHANGED <<ns, policies, heps, observers, pool, narrowed, stale, case, todo, owned,
                 applied, cleanups, after, crashes, started, lost>>

\* Variant: the kinds listed for deletion lack the sets.
Reap_NoSets ==
  /\ pc \in {"reap", "reapAgain"}
  /\ \/ Works /\ policies' = {p \in policies : p.kind # "cluster"}
     \/ Fails("reap") /\ policies' \in {policies, {p \in policies : p.kind # "cluster"}}
  /\ Go(IF pc = "reap" THEN "reapHeps" ELSE "reapHepsAgain")
  /\ UNCHANGED <<ns, netsets, heps, observers, pool, narrowed, stale, case, todo, owned,
                 applied, cleanups, after, crashes, started, lost>>

\* deleteOrphanClusterPolicies, one kind after the other; failing is only logged.
\* It runs before the health gate and again while recovering.
Reap ==
  /\ pc \in {"reap", "reapAgain"}
  /\ \/ Works /\ policies' = {p \in policies : p.kind # "cluster"} /\ netsets' = {}
     \/ Fails("reap") /\ UNCHANGED netsets
        /\ policies' \in {policies, {p \in policies : p.kind # "cluster"}}
  /\ Go(IF pc = "reap" THEN "reapHeps" ELSE "reapHepsAgain")
  /\ UNCHANGED <<ns, heps, observers, pool, narrowed, stale, case, todo, owned,
                 applied, cleanups, after, crashes, started, lost>>

\* Variant: the repair that ends the recovery returns to where the first one did.
ReapHeps_Again ==
  /\ pc \in {"reapHeps", "reapHepsAgain"}
  /\ \/ Works /\ heps' = {} /\ stale' = (stale \/ heps # {})
     \/ Fails("reap") /\ UNCHANGED <<heps, stale>>
  /\ Go(IF pc = "reapHeps" THEN "gate" ELSE "repair")
  /\ UNCHANGED <<ns, policies, netsets, observers, pool, narrowed, case, todo, owned,
                 applied, cleanups, after, crashes, started, lost>>

ReapHeps ==
  /\ pc \in {"reapHeps", "reapHepsAgain"}
  /\ \/ Works /\ heps' = {} /\ stale' = (stale \/ heps # {})
     \/ Fails("reap") /\ UNCHANGED <<heps, stale>>
  /\ IF pc = "reapHeps"
     THEN Go("gate") /\ UNCHANGED after
     ELSE Go("repair") /\ after' = "recheck"
  /\ UNCHANGED <<ns, policies, netsets, observers, pool, narrowed, case, todo, owned,
                 applied, cleanups, crashes, started, lost>>

\* Variant: the recovery returns to the gate.
HealthGate_Retry ==
  /\ pc = "gate"
  /\ \/ Works /\ Go("preclean") /\ todo' = case.ns /\ UNCHANGED after
     \/ Fails("health") /\ Go("repair") /\ after' = "gate" /\ UNCHANGED todo
  /\ UNCHANGED <<cluster, case, owned, applied, cleanups, crashes, started, lost>>

\* ensureClusterHealthy: go on, or roll Calico and look again.
HealthGate ==
  /\ pc = "gate"
  /\ \/ Works /\ Go("preclean") /\ todo' = case.ns /\ UNCHANGED after
     \/ Fails("health") /\ Go("repair") /\ after' = "bounce" /\ UNCHANGED todo
  /\ UNCHANGED <<cluster, case, owned, applied, cleanups, crashes, started, lost>>

\* Restarts that do not converge are only logged; conntrack is flushed on every node.
Bounce ==
  /\ pc = "bounce"
  /\ stale' = FALSE
  /\ Go("reapAgain")
  /\ UNCHANGED <<ns, policies, netsets, heps, observers, pool, narrowed, case, todo, owned,
                 applied, cleanups, after, bounds>>

Recheck ==
  /\ pc = "recheck"
  /\ \/ Works /\ Go("preclean") /\ todo' = case.ns
     \/ Fails("health") /\ Fatal /\ UNCHANGED todo
  /\ UNCHANGED <<cluster, case, owned, applied, cleanups, after, crashes, started, lost>>
-----------------------------------------------------------------------------
(* Namespaces *)

\* What a loop over todo does when nothing is left of it.
Looped(next, rest) == todo = {} /\ Go(next) /\ todo' = rest

\* Variant: every namespace that is there is taken for an orphan.
PreClean_All ==
  /\ pc = "preclean"
  /\ \/ Looped("ensure", case.ns) /\ UNCHANGED <<ns, policies, faults>>
     \/ \E n \in todo :
          /\ todo' = todo \ {n}
          /\ IF n \notin ns
             THEN Works /\ Go(pc) /\ UNCHANGED <<ns, policies>>
             ELSE \/ Works /\ Go(pc) /\ ns' = ns \ {n} /\ policies' = Without(n)
                  \/ Fails("delete") /\ Fatal /\ UNCHANGED <<ns, policies>>
  /\ UNCHANGED <<netsets, heps, observers, pool, narrowed, stale, case, owned, applied,
                 cleanups, after, crashes, started, lost>>

\* A namespace of this case that is already there is an orphan, unless it belongs to
\* the system.
PreClean ==
  /\ pc = "preclean"
  /\ \/ Looped("ensure", case.ns) /\ UNCHANGED <<ns, policies, faults>>
     \/ \E n \in todo :
          /\ todo' = todo \ {n}
          /\ IF n \in Protected \/ n \notin ns
             THEN Works /\ Go(pc) /\ UNCHANGED <<ns, policies>>
             ELSE \/ Works /\ Go(pc) /\ ns' = ns \ {n} /\ policies' = Without(n)
                  \/ Fails("delete") /\ Fatal /\ UNCHANGED <<ns, policies>>
  /\ UNCHANGED <<netsets, heps, observers, pool, narrowed, stale, case, owned, applied,
                 cleanups, after, crashes, started, lost>>

\* ensureNamespace: only a namespace that this call created is the case's own.  No
\* cleanup is registered yet: failing here leaves what was created.
Ensure ==
  /\ pc = "ensure"
  /\ \/ Looped("observers", {}) /\ UNCHANGED <<ns, owned, faults>>
     \/ \E n \in todo :
          /\ todo' = todo \ {n}
          /\ ns' = ns \cup {n}
          /\ \/ Works /\ Go(pc) /\ owned' = owned \cup ({n} \ ns)
             \/ Fails("apply") /\ Fatal /\ UNCHANGED owned
  /\ UNCHANGED <<policies, netsets, heps, observers, pool, narrowed, stale, case, applied,
                 cleanups, after, crashes, started, lost>>

\* The observers' cleanup is registered once their network is known and before they
\* start, the teardown after.
StartObservers ==
  /\ pc = "observers"
  /\ \/ ~case.observer /\ Works /\ Go("base") /\ cleanups' = {"teardown"}
        /\ UNCHANGED observers
     \/ case.observer /\ Works /\ Go("base") /\ cleanups' = {"observers", "teardown"}
        /\ observers' = observers \cup {case.name}
     \/ case.observer /\ Fails("apply") /\ Fatal
        /\ \/ UNCHANGED <<observers, cleanups>>
           \/ observers' \in {observers, observers \cup {case.name}}
              /\ cleanups' = {"observers"}
  /\ UNCHANGED <<ns, policies, netsets, heps, pool, narrowed, stale, case, todo, owned,
                 applied, after, crashes, started, lost>>
-----------------------------------------------------------------------------
(* What the case applies, in this order *)

\* Base resources, readiness, addresses.
ApplyBase ==
  /\ pc = "base"
  /\ \/ Works /\ Go("netsets")
     \/ Fails("apply") /\ Fatal
  /\ UNCHANGED <<cluster, case, todo, owned, applied, cleanups, after,
                 crashes, started, lost>>

ApplyNetsets ==
  /\ pc = "netsets"
  /\ IF case.netset
     THEN /\ applied' = applied \cup {"netset"}
          /\ \/ Works /\ Go("policy") /\ netsets' = netsets \cup {case.name}
             \/ Fails("apply") /\ Fatal /\ netsets' \in {netsets, netsets \cup {case.name}}
     ELSE Works /\ Go("policy") /\ UNCHANGED <<applied, netsets>>
  /\ UNCHANGED <<ns, policies, heps, observers, pool, narrowed, stale, case, todo, owned,
                 cleanups, after, crashes, started, lost>>

\* "Install allow rules before attaching HostEndpoints to live nodes."
ApplyPolicy ==
  /\ pc = "policy"
  /\ applied' = applied \cup {"policy"}
  /\ \/ Works /\ policies' = policies \cup case.policies
        /\ Go(IF case.hep THEN "narrow" ELSE "settle")
     \/ Fails("apply") /\ Fatal
        /\ \E landed \in SUBSET case.policies : policies' = policies \cup landed
  /\ UNCHANGED <<ns, netsets, heps, observers, pool, narrowed, stale, case, todo, owned,
                 cleanups, after, crashes, started, lost>>

\* narrowFailsafes: once, and never undone.
NarrowFailsafes ==
  /\ pc = "narrow"
  /\ \/ Works /\ narrowed' = TRUE /\ Go(IF NoNodePool THEN "heps" ELSE "pool")
     \/ Fails("apply") /\ narrowed' \in {narrowed, TRUE} /\ Fatal
  /\ UNCHANGED <<ns, policies, netsets, heps, observers, pool, stale, case, todo, owned,
                 applied, cleanups, after, crashes, started, lost>>

ApplyPool ==
  /\ pc = "pool"
  /\ applied' = applied \cup {"pool"}
  /\ \/ Works /\ pool' = TRUE /\ Go("heps")
     \/ Fails("apply") /\ pool' \in {pool, TRUE} /\ Fatal
  /\ UNCHANGED <<ns, policies, netsets, heps, observers, narrowed, stale, case, todo, owned,
                 cleanups, after, crashes, started, lost>>

ApplyHeps ==
  /\ pc = "heps"
  /\ applied' = applied \cup {"hep"}
  /\ stale' = TRUE
  /\ \/ Works /\ heps' = heps \cup {case.name} /\ Go("settle")
     \/ Fails("apply") /\ heps' \in {heps, heps \cup {case.name}} /\ Fatal
  /\ UNCHANGED <<ns, policies, netsets, observers, pool, narrowed, case, todo, owned,
                 cleanups, after, crashes, started, lost>>

\* Felix converges, then conntrack is flushed on the HostEndpoints' nodes.
Settle ==
  /\ pc = "settle"
  /\ stale' = (stale /\ ~case.hep)
  /\ Go("predict")
  /\ UNCHANGED <<ns, policies, netsets, heps, observers, pool, narrowed, case, todo, owned,
                 applied, cleanups, after, bounds>>

\* The engine's prediction, then one more flush.
Predict ==
  /\ pc = "predict"
  /\ \/ Works /\ Go("probe")
     \/ Fails("engine") /\ Fatal
  /\ stale' = (stale /\ ~case.hep)
  /\ UNCHANGED <<ns, policies, netsets, heps, observers, pool, narrowed, case, todo, owned,
                 applied, cleanups, after, crashes, started, lost>>

\* Probes, comparison and report; a mismatch fails the case without ending it.
Probe ==
  /\ pc = "probe"
  /\ failed' \in {failed, TRUE}
  /\ pc' = "cleanup"
  /\ UNCHANGED <<cluster, case, todo, owned, applied, cleanups, after, keep, bounds>>
-----------------------------------------------------------------------------
(* Cleanups, last registered first *)

\* A call whose failure the teardown at most logs.
Tolerated == Works /\ UNCHANGED lost
Lost      == Fails("delete") /\ lost' = TRUE

\* E2E_KEEP leaves the scene of a failed case; each cleanup asks again.
Kept == keep /\ failed

Cleanup ==
  /\ pc = "cleanup"
  /\ \/ /\ "teardown" \in cleanups
        /\ cleanups' = cleanups \ {"teardown"}
        /\ Go(IF Kept THEN pc ELSE "tdHeps")
        /\ Tolerated /\ UNCHANGED observers
     \/ /\ cleanups = {"observers"}
        /\ cleanups' = {}
        /\ Go(pc)
        /\ \/ Kept  /\ Tolerated /\ UNCHANGED observers
           \/ ~Kept /\ Tolerated /\ observers' = observers \ {case.name}
           \/ ~Kept /\ Lost /\ UNCHANGED observers
     \/ cleanups = {} /\ Go("idle") /\ Tolerated /\ UNCHANGED <<cleanups, observers>>
  /\ UNCHANGED <<ns, policies, netsets, heps, pool, narrowed, stale, case, todo, owned,
                 applied, after, crashes, started>>

\* Variant: the teardown goes on although the HostEndpoints may still be there.
TdHeps_GoesOn ==
  /\ pc = "tdHeps"
  /\ IF "hep" \in applied
     THEN \/ Tolerated /\ heps' = heps \ {case.name} /\ stale' = TRUE /\ Go("tdFlush")
          \/ Lost /\ heps' \in {heps, heps \ {case.name}} /\ stale' = TRUE /\ Go("tdFlush")
     ELSE Tolerated /\ Go("tdPolicy") /\ UNCHANGED <<heps, stale>>
  /\ UNCHANGED <<ns, policies, netsets, observers, pool, narrowed, case, todo, owned,
                 applied, cleanups, after, crashes, started>>

\* HostEndpoints go while their allow rules still exist; if they may not have gone,
\* the rest of the teardown is given up.
TdHeps ==
  /\ pc = "tdHeps"
  /\ IF "hep" \in applied
     THEN \/ Tolerated /\ heps' = heps \ {case.name} /\ stale' = TRUE /\ Go("tdFlush")
          \/ Lost /\ heps' \in {heps, heps \ {case.name}} /\ stale' = TRUE
             /\ Fatal
     ELSE Tolerated /\ Go("tdPolicy") /\ UNCHANGED <<heps, stale>>
  /\ UNCHANGED <<ns, policies, netsets, observers, pool, narrowed, case, todo, owned,
                 applied, cleanups, after, crashes, started>>

TdFlush ==
  /\ pc = "tdFlush"
  /\ stale' = FALSE
  /\ Go("tdPolicy")
  /\ UNCHANGED <<ns, policies, netsets, heps, observers, pool, narrowed, case, todo, owned,
                 applied, cleanups, after, bounds>>

\* Variant: one pass.
TdPolicy_Once ==
  /\ pc \in {"tdPolicy", "tdTier"}
  /\ \/ "policy" \notin applied /\ Tolerated /\ UNCHANGED policies
     \/ "policy" \in applied /\ Tolerated /\ policies' = Undeleted(case.policies)
     \/ "policy" \in applied /\ Lost /\ policies' \in {policies, Undeleted(case.policies)}
  /\ Go("tdPool")
  /\ UNCHANGED <<ns, netsets, heps, observers, pool, narrowed, stale, case, todo, owned,
                 applied, cleanups, after, crashes, started>>

\* Two passes: the first empties the tiers, the second deletes them.
TdPolicy ==
  /\ pc \in {"tdPolicy", "tdTier"}
  /\ \/ "policy" \notin applied /\ Tolerated /\ UNCHANGED policies
     \/ "policy" \in applied /\ Tolerated /\ policies' = Undeleted(case.policies)
     \/ "policy" \in applied /\ Lost /\ policies' \in {policies, Undeleted(case.policies)}
  /\ Go(IF pc = "tdPolicy" THEN "tdTier" ELSE "tdPool")
  /\ UNCHANGED <<ns, netsets, heps, observers, pool, narrowed, stale, case, todo, owned,
                 applied, cleanups, after, crashes, started>>

TdPool ==
  /\ pc = "tdPool"
  /\ \/ "pool" \notin applied /\ Tolerated /\ UNCHANGED pool
     \/ "pool" \in applied /\ Tolerated /\ pool' = FALSE
     \/ "pool" \in applied /\ Lost /\ pool' \in {pool, FALSE}
  /\ Go("tdNetsets")
  /\ UNCHANGED <<ns, policies, netsets, heps, observers, narrowed, stale, case, todo, owned,
                 applied, cleanups, after, crashes, started>>

TdNetsets ==
  /\ pc = "tdNetsets"
  /\ \/ "netset" \notin applied /\ Tolerated /\ UNCHANGED netsets
     \/ "netset" \in applied /\ Tolerated /\ netsets' = netsets \ {case.name}
     \/ "netset" \in applied /\ Lost /\ netsets' \in {netsets, netsets \ {case.name}}
  /\ todo' = owned
  /\ Go("tdNamespaces")
  /\ UNCHANGED <<ns, policies, heps, observers, pool, narrowed, stale, case, owned,
                 applied, cleanups, after, crashes, started>>

TdNamespaces ==
  /\ pc = "tdNamespaces"
  /\ \/ Looped("cleanup", {}) /\ Tolerated /\ UNCHANGED <<ns, policies>>
     \/ \E n \in todo :
          /\ todo' = todo \ {n}
          /\ Go(pc)
          /\ \/ Tolerated /\ ns' = ns \ {n} /\ policies' = Without(n)
             \/ Lost /\ UNCHANGED <<ns, policies>>
  /\ UNCHANGED <<netsets, heps, observers, pool, narrowed, stale, case, owned, applied,
                 cleanups, after, crashes, started>>
-----------------------------------------------------------------------------
\* The test process is killed or times out: no cleanup runs, the cluster stays.
Crash ==
  /\ pc # "idle"
  /\ crashes < MaxCrashes
  /\ crashes' = crashes + 1
  /\ pc' = "idle" /\ case' = NoCase /\ todo' = {} /\ owned' = {} /\ applied' = {}
  /\ cleanups' = {} /\ after' = "reap" /\ failed' = FALSE
  /\ keep' \in Keep     \* the next process
  /\ UNCHANGED <<cluster, faults, started, lost>>

Progress ==
  \/ RepairList \/ RepairHeps \/ RepairPool \/ RepairFlush \/ Reap \/ ReapHeps
  \/ HealthGate \/ Bounce \/ Recheck \/ PreClean \/ Ensure \/ StartObservers
  \/ ApplyBase \/ ApplyNetsets \/ ApplyPolicy \/ NarrowFailsafes \/ ApplyPool \/ ApplyHeps
  \/ Settle \/ Predict \/ Probe
  \/ Cleanup \/ TdHeps \/ TdFlush \/ TdPolicy \/ TdPool \/ TdNetsets \/ TdNamespaces

Next == StartCase \/ Progress \/ Crash

Spec == Init /\ [][Next]_vars

\* Every call returns: kubectl deletes and waits under a timeout of their own.
FairSpec == Spec /\ WF_vars(Progress)
-----------------------------------------------------------------------------
AllPolicies == UNION {c.policies : c \in Cases}
Names       == {c.name : c \in Cases}
Namespaces  == Protected \cup UNION {c.ns : c \in Cases}

\* The state has the shape the harness keeps.
TypeOK ==
  /\ ns \subseteq Namespaces /\ policies \subseteq AllPolicies
  /\ netsets \subseteq Names /\ heps \subseteq Names /\ observers \subseteq Names
  /\ pool \in BOOLEAN /\ narrowed \in BOOLEAN /\ stale \in BOOLEAN
  /\ pc \in Steps /\ case \in Cases \cup {NoCase}
  /\ todo \subseteq Namespaces /\ owned \subseteq Namespaces
  /\ applied \subseteq {"netset", "policy", "pool", "hep"}
  /\ cleanups \subseteq {"observers", "teardown"}
  /\ after \in {"reap", "bounce", "recheck"} /\ failed \in BOOLEAN
  /\ keep \in Keep
  /\ faults \in 0..MaxFaults /\ crashes \in 0..MaxCrashes /\ started \in 0..MaxCases
  /\ lost \in BOOLEAN

\* A HostEndpoint is never on a live node without the allow rules of its case, whatever
\* failed and whenever the process died: an interface whose policy is gone drops the
\* traffic of the node ("retain policy rather than strand HEPs without allow rules").
HepNeverStranded ==
  \A c \in Cases : c.name \in heps => {p \in c.policies : p.kind # "tier"} \subseteq policies

\* A policy of another case that could change what this case's probes see.
Foreign(p) ==
  /\ p.of # case.name
  /\ p.kind \in {"cluster", "admin"} \/ (p.kind = "namespaced" /\ p.ns \in case.ns)

\* When a case is probed nothing an earlier case left takes part, however that case ended.
CleanSlate == pc = "probe" => ~\E p \in policies : Foreign(p)

\* When a case is probed, the cluster holds what the engine was asked about: the case's
\* own policies, sets and HostEndpoints and no other case's, and no connection that
\* predates its HostEndpoints.
ProbedAsPredicted ==
  pc = "probe" =>
    /\ case.ns \subseteq ns
    /\ case.policies \subseteq policies
    /\ heps    = IF case.hep    THEN {case.name} ELSE {}
    /\ netsets = IF case.netset THEN {case.name} ELSE {}
    /\ case.hep => narrowed /\ ~stale /\ (NoNodePool \/ pool)

\* No sequence of cases, failures and crashes makes the harness delete a namespace of
\* the system, though cases name them like their own.
ProtectedKept == Protected \subseteq ns

\* A case that passed, and none of whose cleanups failed, leaves nothing behind; a
\* tier is the object that one delete of the manifest would leave.
GreenCaseGone ==
  pc = "idle" /\ case # NoCase /\ ~failed /\ ~lost =>
    /\ ~\E p \in policies : p.of = case.name
    /\ case.name \notin heps \cup netsets \cup observers
    /\ owned \cap ns = {}
    /\ case.hep => ~pool /\ ~stale

\* The disabled pool over the node subnet belongs to cases with HostEndpoints.
PoolNeverLingers == pc = "probe" /\ ~case.hep => ~pool

\* A case ends, with the cleanups it registered run, whatever calls fail: the recovery
\* of an unhealthy cluster runs once.
CaseEnds == pc # "idle" ~> pc = "idle"
=============================================================================
