SPECIFICATION Spec
CONSTANTS
  a1 = a1
  a2 = a2
  b1 = b1
  thread = thread
  session = session
  Attempt = {a1, b1}
  Session = {thread, session}
  SessionOf <- MCSessionOf
  Codex = {thread}
  Plain = {}
  Acks = {}
  Awaited = {}
  Troubled = {}
  MaxUnowned = 2
  MaxText <- MCMaxText
  Twice = {}
INVARIANT KeptEventsAreReplayed
CHECK_DEADLOCK FALSE
