CONSTANTS
  Tasks = {t1, t2}
  Kinds = {"ensure", "stop", "reconnect"}
  Sessions = {1, 2, 3}
  Tickets = {1, 2, 3, 4}
  MaxConsecutiveFailures = 3
  AttemptCap = 5
  Faults = {"probe", "kill", "spawn", "setup", "death"}
  MayGoQuiet = TRUE
SPECIFICATION FairSpec
INVARIANT TypeOK
INVARIANT AutomaticRetriesAreBounded
 
CHECK_DEADLOCK FALSE
