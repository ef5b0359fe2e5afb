--------------------------- MODULE SequenceFilter ---------------------------
(* What `filter' makes of an array and `retain' of a queue: the elements   *)
(* that are in a set, in their order.  The definition counts instead of    *)
(* recurring, so that it can be reasoned about.                            *)
EXTENDS Naturals, Sequences, FiniteSets

\* The places of a sequence that hold an element of a set.
Places(q, S) == {i \in DOMAIN q : q[i] \in S}

\* The k-th of the places P.
Nth(P, k) == CHOOSE i \in P : Cardinality({j \in P : j <= i}) = k

Filter(q, S) ==
  [k \in 1 .. Cardinality(Places(q, S)) |-> q[Nth(Places(q, S), k)]]

=============================================================================
