SPECIFICATION Spec
CONSTANTS
  Services = {"sdo", "work"}
  Boots = {FALSE}
  Fragments = 1
  Counters = 3
  QueueSize = 4
  Pool = 6
  Failures = 0
  MayStop = TRUE
  Window = 2
INVARIANTS
  TypeOK
  BuffersHaveOneOwner
  AnsweredOnce
PROPERTIES
  ImplementsMailQueue
