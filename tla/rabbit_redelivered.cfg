\* One message, two events at a time; a fault.
SPECIFICATION Spec
CONSTANTS
  Events = {e1}
  Malformed = {}
  Tasks = {t1, t2}
  MaxConcurrent = 2
  MaxFaults = 1
  None = None
INVARIANTS
  ProcessedOnce
CHECK_DEADLOCK FALSE
