SPECIFICATION Spec
CONSTANTS
  MAX_AXES = 2
  General <- MCGeneral
  AxisObjects <- MCAxisObjects
  PdoSize <- MCPdoSize
  Pdos <- MCPdos
  Modules = {"csp", "bad"}
  Uppers = {0, 1}
  Room = 4
INVARIANTS
  TypeOK
  DictionaryIsOrdered
  MappingFits
  ListsAreComplete
CHECK_DEADLOCK FALSE
