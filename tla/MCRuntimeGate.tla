---------------------------- MODULE MCRuntimeGate ----------------------------
(* Instances of RuntimeGate for TLC.  The tasks are alike: which call a task *)
(* makes is chosen when it makes it.                                         *)
EXTENDS RuntimeGate, TLC

TaskSymmetry == Permutations(Tasks)

=============================================================================
