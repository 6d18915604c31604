\* One mail, two changes of the mailbox besides the sentinel's; a crash.
SPECIFICATION LSpec
CONSTANTS
  Mails = {m1}
  MaxEvents = 2
PROPERTIES
  CountedOnce
CHECK_DEADLOCK FALSE
