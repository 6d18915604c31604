\* One declared and one parked mission, two runs for one slot, one question of
\* its own per mission, one fault.
SPECIFICATION Spec
CONSTANTS
  OwnerMissions = {m1}
  Delegated = {}
  Parked = {s1}
  Runs = {r1, r2}
  MaxConcurrent = 1
  MaxArtifacts = 1
  MaxFaults = 1
  None = None
SYMMETRY RunSymmetry
INVARIANTS
  TypeOK
  PlanningIsOwned
  ZombieMissionIsOver
  QuestionIsOutstanding
  RunningIsDriven
PROPERTIES
  ImplementsLifecycle
CHECK_DEADLOCK FALSE
