SPECIFICATION Spec
CONSTANTS
  Requests <- MCIdRequests
  Mappings <- MCOutMapping
  StartConfigs <- MCSmConfigs
  MbxConfigs = {"ok", "off"}
  PdFaults = {"badout"}
  PdAddrs = {"a1"}
  EsmTimeout = 1
  PllTime = 1
  SyncLimit = 1
INVARIANTS
  OpRunsOutputs
