SPECIFICATION FairSpec
CONSTANTS
  root = root
  planner = planner
  weather = weather
  stranger = stranger
  leaf = leaf
  spare = spare
  Nodes = {root, planner, weather, stranger, leaf, spare}
  Root = root
  NoNode = none
  Children <- TreeChildren
  Registered = {root, planner, weather, leaf, spare}
  Aggregates = {root, planner}
  Requests <- TreeRequests
INVARIANTS
  OnlyAnswersAreCharged
  AnswersArePaidFor
  OnlyAggregatesSpend
  RefusedRequestsSpendNothing
PROPERTIES
  CallbacksKeepPromise
  EveryRequestIsAnswered
CHECK_DEADLOCK FALSE
