SPECIFICATION Spec
CONSTANTS
  store = store
  planner = planner
  NoText = NoText
  Codes <- MCCodes
  Terms <- MCTerms
  Files <- MCFiles
  Flags <- PlainFlags
  Environments <- PlainEnvironments
  Texts <- PlainTexts
  Second = 10
  Half = 128
CHECK_DEADLOCK FALSE
INVARIANT BudgetIsAsConfigured
