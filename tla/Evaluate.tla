------------------------------ MODULE Evaluate ------------------------------
(***************************************************************************)
(* The connectivity sweep of the Calico provider (provider/calico:         *)
(* Evaluate, buildActors, evalFlow, fillMatrixPairs, fillMatrixCollapsed,  *)
(* matrixSink, addServiceColumns, buildActorReport), step by step.         *)
(*                                                                         *)
(* A request, after its defaults and with what Felix's calculation graph   *)
(* made of its policies, is a record:                                      *)
(*   endpoints, hostEndpoints : the ids, in input order                    *)
(*   ep  : [id -> [ip, node, unpoliced, role, wep]]                        *)
(*   hep : [id -> [ip, node, star, normal, forward, preDnat, untracked]],  *)
(*         only for the ids the graph accepted; ip = NoIP without          *)
(*         ExpectedIPs, star is interfaceName "*"                          *)
(*   yamlHeps : ids of HostEndpoints fed through Policies                  *)
(*   store    : the policystore (see Checker)                              *)
(*   services : <<[col, slices, selected]>>, the addresses of the explicit *)
(*              EndpointSlices (a set of sequences) and of the selector    *)
(*              (columns of distinct names)                                *)
(*   pairs    : MatrixPairs     stream : MatrixSink is set                 *)
(*   noCollapse : TELEPATHY_NO_COLLAPSE                                    *)
(*   strictLint, lintFindings, feedErrors : what lint and feeding found    *)
(***************************************************************************)
EXTENDS Collapse

CONSTANTS
  Requests,     \* the requests a sweep may be asked
  NoIP,         \* the address of an actor that has none
  NoMatrix      \* a Response whose Matrix is nil

VARIABLES
  req,          \* the request of this sweep
  pc,           \* where Evaluate is
  actors,       \* actorBundle: [list, byId, heps]
  classes,      \* of the collapse: [peerOf, classOf, memo]
  at,           \* <<outer, inner>> position of the loop that is running
  sink,         \* matrixSink: [m, file, broken]
  resp,         \* Response: [matrix, actors, errors]
  truth         \* history: the verdict of each pair the request asks for

vars == <<req, pc, actors, classes, at, sink, resp, truth>>

NoPolicy == [tiers |-> <<>>, profiles |-> <<>>]
Stored(m, p, v) == [q \in DOMAIN m \cup {p} |-> IF q = p THEN v ELSE m[q]]
-----------------------------------------------------------------------------
(* buildActors *)

\* Workloads in input order, then the HostEndpoints of the typed slice that the
\* graph accepted.  Without an address a HostEndpoint is no row or column.
ActorList(r) ==
  r.endpoints \o SelectSeq(r.hostEndpoints,
                           LAMBDA h : h \in DOMAIN r.hep /\ r.hep[h].ip # NoIP)

HepIds(r) == Range(r.hostEndpoints) \cap DOMAIN r.hep

WorkloadActor(e) ==
  [kind |-> "wep", ip |-> e.ip, node |-> e.node, unpoliced |-> e.unpoliced,
   role |-> e.role, normal |-> e.wep,
   forward |-> NoPolicy, preDnat |-> NoPolicy, untracked |-> NoPolicy]

\* doNotTrack policy on an all-interfaces HostEndpoint is dropped.
HepActor(h) ==
  [kind |-> "hep", ip |-> h.ip, node |-> h.node, unpoliced |-> FALSE,
   role |-> "", normal |-> h.normal, forward |-> h.forward,
   preDnat |-> h.preDnat,
   untracked |-> IF h.star THEN NoPolicy ELSE h.untracked]

ActorById(r) ==
  [i \in Range(r.endpoints) \cup HepIds(r) |->
     IF i \in HepIds(r) THEN HepActor(r.hep[i]) ELSE WorkloadActor(r.ep[i])]

BuildActors(r) == [list |-> ActorList(r), byId |-> ActorById(r), heps |-> HepIds(r)]

ActorKind(a) ==
  IF a.kind = "hep" THEN "hep"
  ELSE CASE a.role = "external" -> "external"
         [] a.role = "host"     -> "host-unpoliced"
         [] OTHER               -> "workload"

\* The actors of a request have records, and the graph it is built into sends every
\* policy and profile that it applies to one of them.
ASSUME RequestsAssumption ==
  \A r \in Requests :
    /\ ActorList(r) \in Seq(DOMAIN ActorById(r))
    /\ BundleStored(r.store, BuildActors(r))
    /\ r.stream \in BOOLEAN
    /\ r.services \in Seq(Range(r.services))

\* An id is that of one actor, a column that of one Service; the workloads are actors.
ASSUME NamesAssumption ==
  \A r \in Requests :
    /\ \A i, j \in DOMAIN ActorList(r) : ActorList(r)[i] = ActorList(r)[j] => i = j
    /\ \A i, j \in DOMAIN r.services : r.services[i].col = r.services[j].col => i = j
    /\ Range(ActorList(r)) \cap {svc.col : svc \in Range(r.services)} = {}
    /\ r.endpoints \in Seq(Range(ActorList(r)))
    /\ r.pairs \in Seq(Range(r.pairs))
    /\ \A q \in Range(r.pairs) : q = <<q[1], q[2]>>

Externals(b) == {i \in Range(b.list) : ActorKind(b.byId[i]) = "external"}
-----------------------------------------------------------------------------
(* evalFlow *)

ForwardTierHas(h, dir) ==
  \E i \in DOMAIN h.forward.tiers : TierPolicies(h.forward.tiers[i], dir) # <<>>

\* The HostEndpoints of a node that are not the flow's own end on that side.
OthersOn(b, node, self) == {h \in b.heps : b.byId[h].node = node /\ h # self}

ForwardAllows(r, b, id, dir, f) ==
  \A h \in OthersOn(b, b.byId[id].node, id) :
    ForwardTierHas(b.byId[h], dir) => Walk(r.store, b.byId[h].forward, dir, f)

PreDnatAllows(r, b, id, f) ==
  \A h \in OthersOn(b, b.byId[id].node, id) :
    b.byId[h].preDnat.tiers # <<>> => Walk(r.store, b.byId[h].preDnat, "in", f)

\* Untracked traffic has no conntrack: the reply must pass the same rules.
UntrackedAllows(r, a, dir, back, f, reply) ==
  a.kind = "hep" /\ a.untracked.tiers # <<>> =>
    /\ Walk(r.store, a.untracked, dir, f)
    /\ Walk(r.store, a.untracked, back, reply)

EvalFlow(r, b, src, dst) ==
  LET s     == b.byId[src]
      d     == b.byId[dst]
      f     == Flow(s.ip, d.ip)
      reply == Flow(d.ip, s.ip)
  IN  /\ OwnerVerdict(r.store, s, d, "out")
      /\ OwnerVerdict(r.store, d, s, "in")
      /\ ForwardAllows(r, b, src, "out", f)
      /\ ForwardAllows(r, b, dst, "in", f)
      /\ PreDnatAllows(r, b, dst, f)
      /\ UntrackedAllows(r, s, "out", "in", f, reply)
      /\ UntrackedAllows(r, d, "in", "out", f, reply)

Word(allow) == IF allow THEN "allow" ELSE "deny"
-----------------------------------------------------------------------------
(* Services *)

\* The endpoint an address is mapped back to: the last one that has it.
IpToId(r, ip) ==
  r.endpoints[CHOOSE i \in DOMAIN r.endpoints :
    /\ r.ep[r.endpoints[i]].ip = ip
    /\ \A j \in DOMAIN r.endpoints : r.ep[r.endpoints[j]].ip = ip => j <= i]

EndpointIps(r) == {r.ep[i].ip : i \in Range(r.endpoints)} \ {NoIP}

\* serviceBackendIDs: the addresses of the explicit slices, else those of the
\* workloads the selector matches; the ones no endpoint has are dropped.
BackendIds(r, svc) ==
  LET addrs == IF svc.slices # {} THEN UNION {Range(s) : s \in svc.slices}
               ELSE Range(svc.selected)
  IN  {IpToId(r, a) : a \in addrs \cap EndpointIps(r)}

ServiceCols(r)   == {svc.col : svc \in Range(r.services)}
ServiceOf(r, col) == CHOOSE svc \in Range(r.services) : svc.col = col

\* Variant: the columns of external actors are not kept.
KeepSet_NoExternals(r, b) == UNION {BackendIds(r, svc) : svc \in Range(r.services)}

\* matrixKeepSet: the columns a post-processor reads back.
KeepSet(r, b) ==
  Externals(b) \cup UNION {BackendIds(r, svc) : svc \in Range(r.services)}
-----------------------------------------------------------------------------
(* matrixSink *)

\* One verdict.  Streaming, it is a line of the file unless the writer's latched
\* error has been hit (now or before), and it stays resident only in kept columns.
Put(src, dst, verdict) ==
  \E fail \in {FALSE, req.stream} :
    LET broken == sink.broken \/ fail
    IN  sink' =
          [m      |-> IF req.stream /\ dst \notin KeepSet(req, actors) THEN sink.m
                      ELSE Stored(sink.m, <<src, dst>>, verdict),
           file   |-> IF req.stream /\ ~broken
                      THEN Append(sink.file, <<src, dst, verdict>>) ELSE sink.file,
           broken |-> broken]

Resident(src, dst) ==
  <<src, dst>> \in DOMAIN sink.m /\ sink.m[<<src, dst>>] = "allow"
-----------------------------------------------------------------------------
(* What a sweep is asked for *)

\* What the sweep is asked, and the true verdict of each pair: evalFlow's, and for
\* a Service that some backend is reachable or is the source itself.
Asked(r, b) ==
  LET ids == Range(b.list)
  IN  IF r.pairs = <<>>
      THEN {p \in ids \X ids : p[1] # p[2]} \cup (ids \X ServiceCols(r))
      ELSE {p \in Range(r.pairs) :
              /\ p[1] \in ids
              /\ p[2] \in ServiceCols(r) \cup (ids \ {p[1]})}

Reaches(r, b, src, dst) ==
  IF dst \in ServiceCols(r)
  THEN \E k \in BackendIds(r, ServiceOf(r, dst)) : k = src \/ EvalFlow(r, b, src, k)
  ELSE EvalFlow(r, b, src, dst)

Truth(r, b) == [p \in Asked(r, b) |-> Word(Reaches(r, b, p[1], p[2]))]
-----------------------------------------------------------------------------
(* Evaluate *)

Init ==
  /\ req \in Requests
  /\ pc = "lint"
  /\ actors = [list |-> <<>>, byId |-> <<>>, heps |-> {}]
  /\ classes = [peerOf |-> <<>>, classOf |-> <<>>, memo |-> <<>>]
  /\ at = <<1, 1>>
  /\ sink = [m |-> <<>>, file |-> <<>>, broken |-> FALSE]
  /\ resp = [matrix |-> NoMatrix, actors |-> <<>>, errors |-> {}]
  /\ truth = Truth(req, BuildActors(req))

\* StrictLint turns any finding into an error and ends the call; the Matrix it
\* returns is the empty map, or nil when streaming.
Lint ==
  /\ pc = "lint"
  /\ IF req.lintFindings /\ req.strictLint
     THEN /\ pc' = "done"
          /\ resp' = [resp EXCEPT !.errors = {"lint"},
                                  !.matrix = IF req.stream THEN NoMatrix ELSE <<>>]
     ELSE /\ pc' = "build"
          /\ UNCHANGED resp
  /\ UNCHANGED <<req, truth, actors, classes, at, sink>>

\* buildGraph's errors do not stop the sweep.  The actors decide how it is filled.
Build ==
  /\ pc = "build"
  /\ actors' = BuildActors(req)
  /\ resp' = [resp EXCEPT !.errors = @ \cup IF req.feedErrors THEN {"feed"} ELSE {}]
  /\ pc' = IF req.pairs # <<>> THEN "pairs"
           ELSE IF HepIds(req) = {} /\ ~req.noCollapse THEN "group" ELSE "exact"
  /\ UNCHANGED <<req, truth, classes, at, sink>>

\* The loops "for outer in 1..rows, for inner in 1..cols".
Running(rows, cols) == at[1] <= rows /\ at[2] <= cols

\* Variant: the inner loop starts one too low.
Step_FromZero(cols) ==
  at' = IF at[2] < cols THEN <<at[1], at[2] + 1>> ELSE <<at[1] + 1, 0>>

Step(cols) ==
  at' = IF at[2] < cols THEN <<at[1], at[2] + 1>> ELSE <<at[1] + 1, 1>>

EndLoop(next) == pc' = next /\ at' = <<1, 1>>

\* The pair a whole-matrix loop is at.
Row == actors.list[at[1]]
Col == actors.list[at[2]]

\* Variant: skipping the pair of an actor with itself does not move on.
ListLoop_SkipSticks(allow) ==
  LET n == Len(actors.list)
  IN  IF Running(n, n)
      THEN Row # Col /\ Put(Row, Col, Word(allow)) /\ Step(n) /\ UNCHANGED pc
      ELSE EndLoop("services") /\ UNCHANGED sink

\* Both whole-matrix loops: every ordered pair of distinct actors.
ListLoop(allow) ==
  LET n == Len(actors.list)
  IN  IF Running(n, n)
      THEN /\ IF Row = Col THEN UNCHANGED sink ELSE Put(Row, Col, Word(allow))
           /\ Step(n)
           /\ UNCHANGED pc
      ELSE EndLoop("services") /\ UNCHANGED sink

\* With HostEndpoints, or without collapse: evalFlow for every pair.
FillExact ==
  /\ pc = "exact"
  /\ ListLoop(EvalFlow(req, actors, Row, Col))
  /\ UNCHANGED <<req, truth, actors, classes, resp>>

\* groupActors.
GroupActors ==
  /\ pc = "group"
  /\ classes' = [classes EXCEPT !.peerOf  = PeerOf(req.store, actors),
                                !.classOf = ClassOf(req.store, actors)]
  /\ pc' = "classes"
  /\ UNCHANGED <<req, truth, actors, at, sink, resp>>

EvaluateClasses ==
  /\ pc = "classes"
  /\ classes' = [classes EXCEPT
       !.memo = [k \in Range(classes.classOf) \X Range(classes.peerOf) \X Directions |->
                   ClassVerdict(req.store, actors, classes.peerOf, classes.classOf,
                                k[1], k[2], k[3])]]
  /\ pc' = "expand"
  /\ UNCHANGED <<req, truth, actors, at, sink, resp>>

\* Every pair is two lookups.
Expand ==
  /\ pc = "expand"
  /\ ListLoop(/\ classes.memo[<<classes.classOf[Row], classes.peerOf[Col], "out">>]
              /\ classes.memo[<<classes.classOf[Col], classes.peerOf[Row], "in">>])
  /\ UNCHANGED <<req, truth, actors, classes, resp>>

\* fillMatrixPairs.  The requested pairs only; unknown names, a repeated pair and
\* an actor paired with itself are skipped.  A Service is the OR of its backends.
PairAllows(src, dst) ==
  IF dst \in ServiceCols(req)
  THEN \E b \in BackendIds(req, ServiceOf(req, dst)) :
         b = src \/ EvalFlow(req, actors, src, b)
  ELSE EvalFlow(req, actors, src, dst)

\* Variant: repeated pairs are not skipped.
Skipped_NoSeen(k) ==
  LET src == req.pairs[k][1]
      dst == req.pairs[k][2]
      ids == Range(actors.list)
  IN  \/ src \notin ids
      \/ dst \notin ServiceCols(req) /\ (dst \notin ids \/ src = dst)

Skipped(k) ==
  LET src == req.pairs[k][1]
      dst == req.pairs[k][2]
      ids == Range(actors.list)
  IN  \/ src \notin ids
      \/ \E j \in 1..(k - 1) : req.pairs[j] = req.pairs[k]
      \/ dst \notin ServiceCols(req) /\ (dst \notin ids \/ src = dst)

FillPairs ==
  /\ pc = "pairs"
  /\ IF Running(Len(req.pairs), 1)
     THEN LET src == req.pairs[at[1]][1]
              dst == req.pairs[at[1]][2]
          IN  /\ IF Skipped(at[1]) THEN UNCHANGED sink
                 ELSE Put(src, dst, Word(PairAllows(src, dst)))
              /\ Step(1)
              /\ UNCHANGED pc
     ELSE EndLoop("report") /\ UNCHANGED sink
  /\ UNCHANGED <<req, truth, actors, classes, resp>>

\* addServiceColumns: the OR, over the backends, of the verdicts just put; a
\* backend reaches its own Service.
AddServiceColumn ==
  /\ pc = "services"
  /\ IF Running(Len(req.services), Len(actors.list))
     THEN LET svc == req.services[at[1]]
              src == actors.list[at[2]]
          IN  /\ Put(src, svc.col,
                     Word(\E b \in BackendIds(req, svc) : b = src \/ Resident(src, b)))
              /\ Step(Len(actors.list))
              /\ UNCHANGED pc
     ELSE EndLoop("report") /\ UNCHANGED sink
  /\ UNCHANGED <<req, truth, actors, classes, resp>>

\* buildActorReport: the internet posture only of a whole matrix.
Internet(i) ==
  IF req.pairs = <<>> /\ i \notin Externals(actors) /\ Externals(actors) # {}
  THEN Word(\E e \in Externals(actors) : Resident(i, e))
  ELSE ""

BuildActorReport ==
  /\ pc = "report"
  /\ resp' = [resp EXCEPT !.actors =
       [k \in DOMAIN actors.list |->
          LET i == actors.list[k]
          IN  [id |-> i, kind |-> ActorKind(actors.byId[i]),
               node |-> actors.byId[i].node, internet |-> Internet(i)]]]
  /\ pc' = "flush"
  /\ UNCHANGED <<req, truth, actors, classes, at, sink>>

\* Variant: the error of the writer is dropped.
Flush_ErrorDropped ==
  /\ pc = "flush"
  /\ resp' = [resp EXCEPT !.matrix = IF req.stream THEN NoMatrix ELSE sink.m]
  /\ pc' = "done"
  /\ UNCHANGED <<req, truth, actors, classes, at, sink>>

\* The writer's latched error is reported here and nowhere else.
Flush ==
  /\ pc = "flush"
  /\ resp' = [resp EXCEPT
       !.errors = @ \cup IF sink.broken THEN {"stream"} ELSE {},
       !.matrix = IF req.stream THEN NoMatrix ELSE sink.m]
  /\ pc' = "done"
  /\ UNCHANGED <<req, truth, actors, classes, at, sink>>

Next ==
  \/ Lint \/ Build
  \/ FillExact \/ GroupActors \/ EvaluateClasses \/ Expand \/ FillPairs
  \/ AddServiceColumn \/ BuildActorReport \/ Flush

\* One goroutine runs the sweep to its end.
Spec == Init /\ [][Next]_vars /\ WF_vars(Next)
-----------------------------------------------------------------------------
(* Properties *)

\* The rows and columns a matrix can have.
Names(r) == Range(ActorList(r)) \cup ServiceCols(r)

\* Every variable holds a value of its kind.
TypeOK ==
  /\ pc \in {"lint", "build", "pairs", "group", "classes", "expand", "exact",
             "services", "report", "flush", "done"}
  /\ Range(actors.list) \cup actors.heps \subseteq DOMAIN actors.byId
  /\ at \in (Nat \ {0}) \X (Nat \ {0})
  /\ \A p \in DOMAIN sink.m : sink.m[p] \in {"allow", "deny"}
  /\ sink.file \in Seq(Names(req) \X Names(req) \X {"allow", "deny"})
  /\ sink.broken \in BOOLEAN
  /\ resp.errors \subseteq {"lint", "feed", "stream"}

\* The verdict every entry of the memo stands for: that of each member of the
\* owner class against each member of the peer class, not only of the two that
\* were put to the checker (collapse.go, "Correctness is exact").
MemoSound ==
  pc = "expand" =>
    \A i, j \in Range(actors.list), dir \in Directions :
      classes.memo[<<classes.classOf[i], classes.peerOf[j], dir>>]
        = OwnerVerdict(req.store, actors.byId[i], actors.byId[j], dir)

\* The matrix whoever asked gets to see: the lines of the stream, or the map.
Lines    == Range(sink.file)
Reported ==
  IF req.stream
  THEN [p \in {<<l[1], l[2]>> : l \in Lines} |->
          (CHOOSE l \in Lines : <<l[1], l[2]>> = p)[3]]
  ELSE sink.m

Status ==
  IF pc # "done" THEN "running"
  ELSE IF resp.errors \cap {"lint", "stream"} = {} THEN "complete" ELSE "failed"

Promise == INSTANCE MatrixSpec
             WITH matrix <- Reported, status <- Status

\* Evaluate implements MatrixSpec, whichever of the three ways fills the matrix
\* and whether it is streamed: the modes agree, a partial matrix is the whole one
\* restricted to the pairs asked, and a lost line is never a silent one.
ImplementsMatrixSpec == Promise!MSpec

\* A stream has at most one line for a pair: its readers add the lines up.
OneLinePerPair ==
  \A j, k \in DOMAIN sink.file :
    j # k => <<sink.file[j][1], sink.file[j][2]>> # <<sink.file[k][1], sink.file[k][2]>>

\* The reported internet posture is the truth about reaching some external, also
\* when the matrix it is read back from is on disk; a partial matrix has none.
InternetPosture ==
  pc = "done" =>
    \A k \in DOMAIN resp.actors :
      LET a         == resp.actors[k]
          b         == BuildActors(req)
          judged    == req.pairs = <<>> /\ a.kind # "external" /\ Externals(b) # {}
      IN  a.internet = IF judged
                       THEN Word(\E e \in Externals(b) : truth[<<a.id, e>>] = "allow")
                       ELSE ""

\* Every sweep ends.
Terminates == <>(pc = "done")

\* feed.go says HostEndpoints fed through Request.Policies "become rows/cols in the
\* connectivity matrix".
YamlHepsAreActors ==
  pc \notin {"lint", "build"} => \A h \in req.yamlHeps : h \in Range(actors.list)
=============================================================================
