----------------------- MODULE MCStartupOrchestrator -----------------------
(* An instance of StartupOrchestrator for TLC: the thread list of two        *)
(* workspaces, one active and one prewarmed, which share the command that    *)
(* scans sessions; a second prewarmed task; a task on demand.                *)
EXTENDS StartupOrchestrator

CONSTANTS active, prewarm, skills, models

MCPhaseOf ==
  [k \in Keys |-> CASE k = active -> "active-workspace"
                    [] k = models -> "on-demand"
                    [] OTHER -> "idle-prewarm"]
MCPriorityOf == [k \in Keys |-> IF k = skills THEN 1 ELSE 0]
MCCommandOf ==
  [k \in Keys |-> IF k \in {active, prewarm} THEN "thread-session-scan"
                                             ELSE "light"]
MCScopeOf ==
  [k \in Keys |-> CASE k = active -> "w1" [] k = prewarm -> "w2"
                    [] OTHER -> "global"]
MCPhaseLimit == [p \in Phases |-> IF p = "on-demand" THEN 2 ELSE 1]
MCCommandLimit == [c \in {"thread-session-scan"} |-> 1]

=============================================================================
