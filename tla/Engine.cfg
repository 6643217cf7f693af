SPECIFICATION FairSpec
CONSTANTS
  t1 = t1
  t2 = t2
  t3 = t3
  Thread = {t1, t2}
  Nobody = Nobody
  Catalog = {"c1", "c2"}
  None = "none"
  Quote = {"dquote", "backtick"}
  NoQuote = "unreported"
  DefaultQuote = "dquote"
  Schema = {"s1", "s2"}
  NoSet = NoSet
  Servers <- MCServers
  MaxChanges = 1
  MaxWaits = 3
  MaxReflects = 2
INVARIANTS
  ServedOnlyVerified
  ProfileOfLastAttempt
  WarningsBounded
PROPERTIES
  NoSilentSchema
  ConnectReturns
CHECK_DEADLOCK FALSE
