SPECIFICATION Spec
CONSTANTS
  Contracts <- MCContracts
  MaxSchemaDepth = 7
  MaxSchemaSize = 25
INVARIANTS VerdictIsExact PayloadIsExact
CHECK_DEADLOCK FALSE
