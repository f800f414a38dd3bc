SPECIFICATION Spec
CONSTANTS
  news = news
  report = report
  advice = advice
  NoData = NoData
  Runs = {"old", "next", "guest"}
  Authorized = {"old", "next"}
  Contracts <- MCContracts
  Agents <- MCAgents
  ContractList <- MCContractList
  AgentList <- MCAgentList
  Uses <- MCUses
  Catalogs <- RerunCatalogs
  Semvers = {"1.0.0", "2.0.0"}
  Data = {1, 2}
  MaxStarts = 2
CHECK_DEADLOCK FALSE
PROPERTY RerunsAreIdempotent
