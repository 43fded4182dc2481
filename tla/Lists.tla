------------------------------- MODULE Lists -------------------------------
(***************************************************************************)
(* What several loops of the code leave of a list: some of its elements,   *)
(* in their order.                                                         *)
(***************************************************************************)
EXTENDS Integers, Sequences, FiniteSets

Least(S) == CHOOSE n \in S : \A k \in S : n <= k

\* The elements of s at the positions in T, in order.
Rank(T, n) == Cardinality({k \in T : k <= n})
Kept(s, T) == [m \in 1..Cardinality(T) |-> s[CHOOSE n \in T : Rank(T, n) = m]]
=============================================================================
