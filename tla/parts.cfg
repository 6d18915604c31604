SPECIFICATION TSpec
CONSTANTS
  MaxEvidence = 8
  m1 = m1
  Mails = {m1}
  MaxEvents = 2
  MaxFaults = 1
  MaxEdits = 1
  MaxDropped = 1
  Samples <- SampleMails
  StoredRules <- OwnerRules
  c1 = c1
  c2 = c2
  c3 = c3
  ModelThreads = {c1, c2, c3}
  Threshold = 2
  MaxCalls = 5
  poll = poll
  t1 = t1
  a1 = a1
  Tasks = {poll}
  Threads = {t1}
  ApiThreads = {a1}
  MaxTokens = 2
  n1 = n1
  n2 = n2
  r1 = r1
  r2 = r2
  Configs = {n1, n2}
  Readers = {r1, r2}
  MaxRev = 2
  MaxDrops = 1
  p1 = p1
  p2 = p2
  Kinds = {"event created", "event cancelled"}
  Projectors = {p1, p2}
  BatchSize = 2
  MaxSent = 3
  MaxHitches = 1
  w1 = w1
  w2 = w2
  Writers = {w1, w2}
  QueueSize = 2
  MaxRevs = 4
INVARIANTS
  PartsTypeOK RescueIsSeen TrustOutranksBlock JunkIsFinal StaleIsExplained GraphIsTrue
  EndIsHeard OpensOrRaced OneFlight
PROPERTIES
  TrustIsEarned RestoredOnce TokensAreKept
CHECK_DEADLOCK FALSE
