SPECIFICATION FairSpec
CONSTANTS
  MAX_AXES = 1
  Writable = {"605A"}
  OptionCodes = {5}
  ErrorsInterrupt = FALSE
  MaxEvents = 1
PROPERTIES
  QuickStopRunsOnce
