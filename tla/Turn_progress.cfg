SPECIFICATION FairSpec
CONSTANTS
  a1 = a1
  a2 = a2
  b1 = b1
  b2 = b2
  t1 = t1
  t2 = t2
  Attempt = {a1, a2}
  Binding = {b1}
  BindingOf <- OneBinding
  EarlyIdentity = {}
  Thread = {t1, t2}
  Serial = FALSE
  RuntimeOutcome = {"completed", "failed"}
  RecoveryCommand = {}
  MaxRecovery = 0
  MaxCrash = 0
PROPERTIES AcceptedEndIsCommitted
CHECK_DEADLOCK FALSE
