SPECIFICATION FairSpec
CONSTANTS
  c1 = c1
  c2 = c2
  Catalog <- MCCatalog
  None = None
  Undecided = Undecided
  Servers <- BrokenServers
  MaxChanges = 0
  MaxTransients = 0
PROPERTIES
  ProbeFailureIsSilent
