\* Two mails, deltas of one or two, one event at a time; a fault, a PATCH.
SPECIFICATION FairSpec
CONSTANTS
  Events = {1, 2}
  Tasks = {t1, t2, t3, t4}
  MaxConcurrent = 1
  MaxFaults = 1
  MaxMails = 2
  MaxChanges = 2
  MaxPatches = 1
  None = None
INVARIANTS
  TypeOK
  NoMailIsPassedOver
  AtMostOnce
PROPERTIES
  MailSettles
CHECK_DEADLOCK FALSE
