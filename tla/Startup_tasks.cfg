CONSTANTS
  active = active
  prewarm = prewarm
  skills = skills
  models = models
  Keys = {active, prewarm, skills}
  PhaseOf <- MCPhaseOf
  PriorityOf <- MCPriorityOf
  CommandOf <- MCCommandOf
  ScopeOf <- MCScopeOf
  PhaseLimit <- MCPhaseLimit
  CommandLimit <- MCCommandLimit
  MaxRuns = 3
SPECIFICATION FairSpec
INVARIANT KeysNameOneTask
INVARIANT SlotsAreCounted
INVARIANT StartableIsNotLeft
PROPERTY CallersAreAnswered
CHECK_DEADLOCK FALSE
