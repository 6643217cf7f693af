SPECIFICATION Spec
CONSTANTS
  v1 = v1
  v2 = v2
  Value <- MCValue
  Empty = Empty
  NoValue = NoValue
  Batches <- EmptyTupleBatches
  a = a
  b = b
  Cursor = {a, b}
  MaxCalls = 1
  MaxRows = 3
INVARIANTS
  RunsWhatWasAsked
CHECK_DEADLOCK FALSE
