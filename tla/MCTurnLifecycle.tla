-------------------------- MODULE MCTurnLifecycle --------------------------
(* Instances of TurnLifecycle for TLC: two attempts, on one binding that    *)
(* they follow each other on, or on a binding each.                         *)
EXTENDS TurnLifecycle, TLC

CONSTANTS a1, a2, b1, b2, t1, t2

OneBinding == (a1 :> b1) @@ (a2 :> b1)
TwoBindings == (a1 :> b1) @@ (a2 :> b2)

\* No command depends on which thread executes it.
Threads == Permutations(Thread)

=============================================================================
