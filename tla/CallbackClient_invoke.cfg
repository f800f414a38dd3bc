SPECIFICATION FairSpec
CONSTANTS
  a = a
  b = b
  NoCode = NoCode
  Codes <- MCCodes
  MaxDependencyDepth = 2
  MaxDependencies = 3
  CallbackURLs <- MCCallbackURLs
  AllowedOrigins <- MCAllowedOrigins
  Requests <- SomeRequests
CHECK_DEADLOCK FALSE
INVARIANTS SuccessIsComplete ResultsMatchCodes SendersNeverBlock NoResultIsAwaitedInVain ReportedErrorIsARootCause
PROPERTIES ScattersAndGathers InvokeEnds FailureStopsSiblings CancellationReturns
