CONSTANTS
  Tasks = {t1, t2}
  Kinds = {"hookSafe", "connect", "restart", "settings", "stop"}
  Sessions = {1, 2, 3, 4, 5}
  Tickets = {1, 2, 3, 4, 5}
  MaxConsecutiveFailures = 3
  AttemptCap = 0
  Faults = {"kill", "slow"}
  MayGoQuiet = FALSE
SYMMETRY TaskSymmetry
SPECIFICATION Spec
INVARIANT GateIsItsLeaders
INVARIANT NoProcessIsLost
INVARIANT OneStoppingPredecessor
PROPERTY LeavesToBeStopped
CHECK_DEADLOCK FALSE
