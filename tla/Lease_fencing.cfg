SPECIFICATION Spec
CONSTANTS
  a1 = a1
  a2 = a2
  w1 = w1
  Attempt = {a1, a2}
  Workspace = {w1}
  WorkspaceOf <- MCWorkspaceOf
  SessionOf <- MCSessionOf
  ClockStepsBack = FALSE
  MaxTime = 2
  MaxLog = 7
INVARIANTS TypeOK IndexMatchesFacts ExclusiveMutation ClaimsAreBacked
PROPERTY ImplementsLock
