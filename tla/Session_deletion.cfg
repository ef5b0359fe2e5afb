SPECIFICATION Spec
CONSTANTS
  r1 = r1
  r2 = r2
  claude = claude
  codex = codex
  dsh = dsh
  Session = {claude, codex, dsh}
  Request = {r1, r2}
  Targets <- MCTargets
  Unprompted = {codex}
  Running = {claude}
  Bare = {codex}
  Unmarkable = {}
  Daemon = {dsh}
  Unindexed = {}
  Scan = {"scan"}
  BufferCap = 2
  MaxCrashes = 1
INVARIANT TypeOK
INVARIANT DeletedStaysHidden
INVARIANT HeardIsAnswered
PROPERTY MarkedBeforeRemoved
CHECK_DEADLOCK FALSE
