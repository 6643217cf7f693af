SPECIFICATION Spec
CONSTANTS
  t1 = t1
  t2 = t2
  t3 = t3
  Thread = {t1, t2}
  Nobody = Nobody
  Catalog = {"c1", "c2"}
  None = "none"
  Quote = {"dquote", "backtick"}
  NoQuote = "unreported"
  DefaultQuote = "dquote"
  Schema = {"s1"}
  NoSet = NoSet
  Servers <- MCServers
  MaxChanges = 0
  MaxWaits = 2
  MaxReflects = 1
INVARIANTS
  WarnedOnce
CHECK_DEADLOCK FALSE
