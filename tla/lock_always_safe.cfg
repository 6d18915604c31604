\* One polling task, one worker thread and one thread of the API; a fault.
SPECIFICATION OSpec
CONSTANTS
  Tasks = {poll}
  Threads = {t1}
  ApiThreads = {a1}
  poll = poll
  t1 = t1
  a1 = a1
  MaxTokens = 2
  MaxFaults = 1
INVARIANTS
  SyncCallsAreSafe
CHECK_DEADLOCK FALSE
