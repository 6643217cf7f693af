SPECIFICATION Spec
CONSTANTS
  a = a
  b = b
  s1 = s1
  s2 = s2
  x = x
  y = y
  Name <- MCName
  DbSchema <- MCDbSchema
  Columns <- MCColumns
  None = None
  Malformed = Malformed
  Reported <- MCReported
  MaxEndpoints = 3
INVARIANTS
  DescribedExactly
  ColumnsAreItsOwn
  SupportIsComplete
  TypesAreItsOwn
CHECK_DEADLOCK FALSE
