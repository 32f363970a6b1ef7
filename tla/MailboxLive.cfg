SPECIFICATION FairSpec
CONSTANTS
  Services = {"list"}
  Boots = {FALSE}
  Fragments = 1
  Counters = 3
  QueueSize = 4
  Pool = 6
  Failures = 0
  MayStop = FALSE
  Window = 1
PROPERTIES
  PendingIsSent
  RequestsAreAnswered
