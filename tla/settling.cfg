\* Conversation: three LLM steps, up to two tool results each, a restart.
\* RabbitMQ: two messages and one that cannot be parsed, one at a time; a fault.
\* Daemon: two missions compete for one slot; a fault.  No questions: with a
\* single run two parked missions could not both recover.
SPECIFICATION SSpec
CONSTANTS
  MaxSteps = 3
  MaxBatch = 2
  MaxCrashes = 1
  Events = {e1, e2, bad}
  Malformed = {bad}
  Tasks = {t1, t2, t3}
  OwnerMissions = {m1, m2}
  Runs = {r1}
  MaxConcurrent = 1
  MaxFaults = 1
  None = None
INVARIANTS
  TypesOK
  NoQuestionTwice
  AskedIsNewest
  AnswersReachTheGraph
  QuestionsAreBounded
  AckedWasTaken
  UnackedIsExplained
  ProcessedOnce
PROPERTIES
  ConversationEnds
  MessageSettles
  DeclaredIsClaimed
CHECK_DEADLOCK FALSE
