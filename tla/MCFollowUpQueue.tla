-------------------------- MODULE MCFollowUpQueue --------------------------
(* Instances of FollowUpQueue for TLC: a native and a shared thread, or two  *)
(* native threads.                                                           *)
EXTENDS FollowUpQueue

CONSTANTS native, shared

=============================================================================
