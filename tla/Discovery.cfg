SPECIFICATION FairSpec
CONSTANTS
  c1 = c1
  c2 = c2
  Catalog <- MCCatalog
  None = None
  Undecided = Undecided
  Servers <- MCServers
  MaxChanges = 1
  MaxTransients = 2
INVARIANTS
  RpcBudget
  AnswersComplete
  NamesTruthfulUndisturbed
  NeverScopesCompliant
PROPERTIES
  KeepsPromise
  ChoosesExecutionDefault
  KeepsLivePromise
  DiscoverySettles
