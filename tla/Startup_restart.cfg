SPECIFICATION Spec
CONSTANTS
  store = store
  planner = planner
  NoText = NoText
  Codes <- MCCodes
  Terms <- MCTerms
  Files <- MCFiles
  Flags <- MCFlags
  Environments <- MCEnvironments
  Texts <- MCTexts
  Second = 10
  Half = 128
CHECK_DEADLOCK FALSE
INVARIANTS AcceptedConfigurationServes OnlyConfiguredOrigins DeadlinesAreExact AdvertisedAsServed
