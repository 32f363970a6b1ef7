SPECIFICATION FairSpec
CONSTANTS
  Objects <- MCObjects
  Length <- MCLength
  Values = {"v1", "v2"}
  ReceiveMbxSize = 34
  SendMbxSize = 34
INVARIANTS
  BufferIsOwned
  SessionInStep
  NoProtocolError
  ObjectsAreWhole
PROPERTIES
  UploadsAreIntact
  DownloadsAreIntact
  TransfersEnd
