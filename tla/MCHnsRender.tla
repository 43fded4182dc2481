---------------------------- MODULE MCHnsRender ----------------------------
(***************************************************************************)
(* Endpoints with up to three tiers, in front of, in and behind the        *)
(* default one, over ports 0..3.                                           *)
(***************************************************************************)
EXTENDS HnsRender

R(action, protocol, remote, rports) ==
  [Catch(action) EXCEPT !.protocol = protocol, !.remote = remote, !.rports = rports]
Negated == [Catch("Block") EXCEPT !.unsupported = TRUE, !.remote = {1}]

AdminRules ==
  { R("Pass", 6, Any, Any), R("Pass", Any, {1, 2}, {1, 2}), R("Allow", 6, {2}, Any),
    R("Block", Any, {1}, {0, 1}), [R("Pass", Any, Any, Any) EXCEPT !.local = {7}, !.lports = {1}] }
DefaultRules ==
  { R("Allow", Any, {2, 3}, {1}), R("Block", 17, Any, Any), R("Allow", 6, Any, {1, 2}),
    R("Pass", Any, {2}, Any), Negated }
LaterRules == { R("Allow", Any, Any, {1, 3}), R("Pass", 6, {1}, Any), R("Block", Any, {3}, Any),
                R("Allow", 6, Any, {0}) }

Tier(name, defaultAction, rules) ==
  [name |-> name, defaultAction |-> defaultAction, policies |-> TRUE, rules |-> rules]
Absent(name) == [name |-> name, defaultAction |-> "Deny", policies |-> FALSE, rules |-> <<>>]

AdminTiers ==
  {Absent("admin"), Tier("admin", "Pass", <<>>), Tier("admin", "Deny", <<>>)}
  \cup {Tier("admin", d, <<r, s>>) : d \in {"Pass", "Deny"}, r \in AdminRules, s \in AdminRules}
DefaultTiers ==
  {Absent("default"), Tier("default", "Deny", <<>>)}
  \cup {Tier("default", "Deny", <<r, s>>) : r \in DefaultRules, s \in DefaultRules}
LaterTiers ==
  {Absent("later")} \cup {Tier("later", d, <<r>>) : d \in {"Pass", "Deny"}, r \in LaterRules}

MCEndpoints ==
  {[tiers |-> <<a, d, l>>, profiles |-> <<Catch("Allow")>>] :
     a \in AdminTiers, d \in DefaultTiers, l \in LaterTiers}
  \cup {[tiers |-> <<>>, profiles |-> ps] : ps \in {<<>>, <<Catch("Allow")>>}}

MCPackets ==
  [protocol : Protocols, local : {7, 8}, remote : {1, 2, 3}, lport : {1, 2}, rport : Ports]
=============================================================================
