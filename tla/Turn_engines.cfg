SPECIFICATION Spec
CONSTANTS
  a1 = a1
  a2 = a2
  b1 = b1
  b2 = b2
  t1 = t1
  t2 = t2
  Attempt = {a1, a2}
  Binding = {b1, b2}
  BindingOf <- TwoBindings
  EarlyIdentity = {b2}
  Thread = {t1, t2}
  Serial = TRUE
  RuntimeOutcome = {"completed", "failed", "cancelled", "missing"}
  RecoveryCommand = {"cancel", "markRecovery"}
  MaxRecovery = 1
  MaxCrash = 1
SYMMETRY Threads
 
PROPERTIES  ForgottenWhenCommitted
CHECK_DEADLOCK FALSE
