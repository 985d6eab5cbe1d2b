----------------------------- MODULE Selection ------------------------------
(***************************************************************************)
(* Numbers in their order, and the elements of a sequence that are in a    *)
(* set: what sort and filter do in the code.                               *)
(***************************************************************************)
EXTENDS Integers, Sequences, FiniteSets

\* The numbers of a set in their order, and the elements of a sequence that are in a set.
InOrder(S) == [k \in 1..Cardinality(S) |-> CHOOSE n \in S : Cardinality({m \in S : m <= n}) = k]
Kept(s, S) == LET at == InOrder({i \in 1..Len(s) : s[i] \in S}) IN [k \in DOMAIN at |-> s[at[k]]]
=============================================================================
