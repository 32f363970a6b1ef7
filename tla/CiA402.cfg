SPECIFICATION FairSpec
CONSTANTS
  MAX_AXES = 2
  Writable = {"605B"}
  OptionCodes = {0, 2}
  ErrorsInterrupt = TRUE
  MaxEvents = 1
INVARIANTS
  TypeOK
  OperatingIsEnabled
PROPERTIES
  EnergisedOnCommand
  ImplementsDiagram
  DisableVoltageIsObeyed
