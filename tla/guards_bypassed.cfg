\* A delegated mission whose question looks like the draft of a sent mail.
SPECIFICATION Spec
CONSTANTS
  OwnerMissions = {}
  Delegated = {d1}
  Parked = {}
  Runs = {r1, r2}
  MaxConcurrent = 1
  MaxArtifacts = 1
  MaxFaults = 1
  None = None
PROPERTIES
  NobodyBypassesTheGuards
CHECK_DEADLOCK FALSE
