SPECIFICATION ParseSpec
CONSTANTS
  NoVersion = "none"
  Documents <- MCDocuments
INVARIANTS DefinitionsMatchContracts ParseIsExact
CHECK_DEADLOCK FALSE
