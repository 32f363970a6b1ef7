SPECIFICATION Spec
CONSTANTS
  Services = {"foe", "long"}
  Boots = {TRUE}
  Fragments = 1
  Counters = 3
  QueueSize = 3
  Pool = 3
  Failures = 0
  MayStop = FALSE
  Window = 1
INVARIANTS
  NoReplyStored
