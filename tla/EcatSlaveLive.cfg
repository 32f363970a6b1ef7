SPECIFICATION FairSpec
CONSTANTS
  Requests <- MCDcRequests
  Mappings <- MCOutMapping
  StartConfigs <- MCGoodConfigs
  MbxConfigs = {"ok"}
  PdFaults = {}
  PdAddrs = {"a1"}
  EsmTimeout = 2
  PllTime = 1
  SyncLimit = 1
INVARIANTS
  TypeOK
PROPERTIES
  EnterOpSafely
  ImplementsESM
  PendingEnds
  RequestsAreRead
  WatchdogEndsOp
  SyncLossEndsOp
