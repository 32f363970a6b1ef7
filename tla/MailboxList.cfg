SPECIFICATION Spec
CONSTANTS
  Services = {"list", "work", "bad"}
  Boots = {FALSE, TRUE}
  Fragments = 2
  Counters = 3
  QueueSize = 4
  Pool = 6
  Failures = 1
  MayStop = FALSE
  Window = 1
INVARIANTS
  BuffersHaveOneOwner
PROPERTIES
  ListInOrder
