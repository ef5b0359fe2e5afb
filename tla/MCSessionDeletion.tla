-------------------------- MODULE MCSessionDeletion --------------------------
\* A request for a Claude session at work and a Codex session without a prompt,
\* and one that asks for the first again, together with a session of a daemon.
EXTENDS SessionDeletion

CONSTANTS r1, r2, claude, codex, dsh

MCTargets == [r \in Request |-> IF r = r1 THEN {claude, codex} ELSE {claude, dsh}]
=============================================================================
