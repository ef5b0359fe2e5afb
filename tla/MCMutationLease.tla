--------------------------- MODULE MCMutationLease ---------------------------
(* Instances of MutationLease for TLC: two attempts that contend for one     *)
(* workspace, from sessions whose order is not that of the attempts.         *)
EXTENDS MutationLease, TLC

CONSTANTS a1, a2, w1

MCWorkspaceOf == (a1 :> w1) @@ (a2 :> w1)
MCSessionOf == (a1 :> 2) @@ (a2 :> 1)

=============================================================================
