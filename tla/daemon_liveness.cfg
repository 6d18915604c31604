\* One delegated mission, two runs and a slot for each, two faults: the second
\* may interrupt the recovery from the first.
SPECIFICATION FairSpec
CONSTANTS
  OwnerMissions = {}
  Delegated = {d1}
  Parked = {}
  Runs = {r1, r2}
  MaxConcurrent = 2
  MaxArtifacts = 2
  MaxFaults = 2
  None = None
INVARIANTS
  ClaimedOnce
  QuestionIsOutstanding
PROPERTIES
  ArtifactsOnlyGrow
  RunningSettles
CHECK_DEADLOCK FALSE
