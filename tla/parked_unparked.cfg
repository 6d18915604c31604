\* The owner resumes a mission that is still being planned; two slots.
SPECIFICATION Spec
CONSTANTS
  OwnerMissions = {m1}
  Delegated = {}
  Parked = {}
  Runs = {r1, r2}
  MaxConcurrent = 2
  MaxArtifacts = 2
  MaxFaults = 0
  None = None
PROPERTIES
  OnlyResumeUnparks
CHECK_DEADLOCK FALSE
