------------------------ MODULE MCRuntimeCoordinator ------------------------
(* Two turns of Claude that follow each other in one session, the second   *)
(* with an acknowledged context, beside a turn on a Codex thread that it   *)
(* starts.                                                                 *)
EXTENDS RuntimeCoordinator

CONSTANTS a1, a2, b1, thread, session

MCSessionOf == [a \in Attempt |-> IF a = b1 THEN thread ELSE session]
MCMaxText == [a \in Attempt |-> IF a = a2 THEN 1 ELSE 0]

=============================================================================
