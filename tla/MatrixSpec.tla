----------------------------- MODULE MatrixSpec -----------------------------
(***************************************************************************)
(* What one connectivity sweep promises whoever asked for it, whatever the *)
(* way the provider fills the matrix and wherever it puts it: verdicts are *)
(* reported one pair at a time, each is the truth about its pair, none is  *)
(* reported twice or taken back, and a sweep that ends without an error    *)
(* has reported every pair it was asked for.                               *)
(***************************************************************************)
VARIABLES
  truth,    \* the verdict of each pair the sweep is asked for
  matrix,   \* the verdicts reported so far, a function on some of the pairs
  status    \* "running", "complete" or "failed"

mvars == <<truth, matrix, status>>

Verdicts == {"allow", "deny"}

Extended(m, p, v) == [q \in DOMAIN m \cup {p} |-> IF q = p THEN v ELSE m[q]]

MInit ==
  /\ \A p \in DOMAIN truth : truth[p] \in Verdicts
  /\ matrix = <<>>
  /\ status = "running"

ReportPair(p) ==
  /\ status = "running"
  /\ p \notin DOMAIN matrix
  /\ matrix' = Extended(matrix, p, truth[p])
  /\ UNCHANGED <<truth, status>>

Complete ==
  /\ status = "running"
  /\ DOMAIN matrix = DOMAIN truth
  /\ status' = "complete"
  /\ UNCHANGED <<truth, matrix>>

Fail ==
  /\ status = "running"
  /\ status' = "failed"
  /\ UNCHANGED <<truth, matrix>>

MNext == (\E p \in DOMAIN truth : ReportPair(p)) \/ Complete \/ Fail

MSpec == MInit /\ [][MNext]_mvars
=============================================================================
