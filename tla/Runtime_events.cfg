SPECIFICATION Spec
CONSTANTS
  a1 = a1
  a2 = a2
  b1 = b1
  thread = thread
  session = session
  Attempt = {a1, a2, b1}
  Session = {thread, session}
  SessionOf <- MCSessionOf
  Codex = {thread}
  Plain = {}
  Acks = {a2}
  Awaited = {a1}
  Troubled = {a1, b1}
  MaxUnowned = 2
  MaxText <- MCMaxText
  Twice = {}
INVARIANTS TypeOK OrderIsKept EndIsTheTurns ShownInOrder KeptEventsAreOnHold WaitersAreWoken
CHECK_DEADLOCK FALSE
