SPECIFICATION Spec
CONSTANTS
  Requests <- MCRequests
  Mappings <- MCMappings
  StartConfigs <- MCSmConfigs
  MbxConfigs = {"ok", "overlap", "off"}
  PdFaults = {"badin", "badout"}
  PdAddrs = {"a1"}
  EsmTimeout = 1
  PllTime = 1
  SyncLimit = 1
INVARIANTS
  OutputsOnlyInOp
  OpRunsOutputs
  WaitConsistent
  HandlersMatchState
  ClosedWhenStopped
PROPERTIES
  LeavingOpShutsOutputs
  StartedIsAnswered
  ImplementsESM
