SPECIFICATION Spec
CONSTANTS
  c1 = c1
  c2 = c2
  Catalog <- MCCatalog
  None = None
  Undecided = Undecided
  Servers <- TroubledServers
  MaxChanges = 0
  MaxTransients = 1
INVARIANTS
  NamesOnlyTruthful
