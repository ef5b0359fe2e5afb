CONSTANTS
  native = native
  shared = shared
  Threads = {native, shared}
  Shared = {shared}
  SameRun = {shared}
  OpenCode = {native}
  MaxMessages = 2
  MaxTurns = 2
SPECIFICATION Spec
INVARIANT NothingIsSentTwice
INVARIANT RemovedStaysRemoved
INVARIANT InFlightIsBacked
INVARIANT NothingIsLost
CHECK_DEADLOCK FALSE
