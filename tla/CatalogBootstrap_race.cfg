SPECIFICATION Spec
CONSTANTS
  news = news
  report = report
  advice = advice
  NoData = NoData
  Runs = {"old", "new", "bump"}
  Authorized = {"old", "new", "bump"}
  Contracts <- MCContracts
  Agents <- MCAgents
  ContractList <- MCContractList
  AgentList <- MCAgentList
  Uses <- MCUses
  Catalogs <- RaceCatalogs
  Semvers = {"1.0.0", "2.0.0"}
  Data = {1, 2}
  MaxStarts = 2
CHECK_DEADLOCK FALSE
INVARIANTS SuccessMeansPublished PublishedInOrder VersionsAgreeWithContracts
