---------------------------- MODULE MCProbePool ----------------------------
(***************************************************************************)
(* Instances of ProbePool: fan-outs over a pool of two, a HostEndpoint     *)
(* case, an observer case.                                                 *)
(***************************************************************************)
EXTENDS ProbePool

A(from, to, proto, engine, policy) ==
  [from |-> from, to |-> to, proto |-> proto, quarantined |-> FALSE,
   engine |-> engine, policy |-> policy]

Allowed   == A("pod", "pod", "l4", "allow", "allow")
Denied    == A("pod", "nodeport", "l4", "deny", "deny")
Disagreed == A("pod", "pod", "icmp", "allow", "deny")
Quiet     == [Denied EXCEPT !.quarantined = TRUE]

Fanned   == [flows |-> <<Allowed, Disagreed, Quiet>>, external |-> FALSE, hep |-> FALSE]
Host     == [flows |-> <<Denied, Allowed>>, external |-> FALSE, hep |-> TRUE]
Observed == [flows |-> <<A("external", "nodeport", "l4", "allow", "allow"),
                         A("external", "pod", "icmp", "deny", "deny"),
                         A("pod", "missing", "l4", "deny", "deny")>>,
             external |-> TRUE, hep |-> FALSE]
Internet == [flows |-> <<A("internet", "pod", "icmp", "deny", "deny"),
                         A("pod", "pod", "other", "deny", "deny"),
                         A("missing", "pod", "l4", "deny", "deny"), Denied>>,
             external |-> FALSE, hep |-> FALSE]

MCCases         == {Fanned, Host, Observed, Internet}
MCConcurrencies == {0, 2}
=============================================================================
