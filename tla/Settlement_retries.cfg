SPECIFICATION FairSpec
CONSTANT MaxRetries = 5
CHECK_DEADLOCK FALSE
INVARIANTS RefusalIsFinal OneAttemptUnresolved DelayExists
PROPERTIES KeepsPromise SettleReturns
