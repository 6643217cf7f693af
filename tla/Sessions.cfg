SPECIFICATION Spec
CONSTANTS
  v1 = v1
  v2 = v2
  Value <- MCValue
  Empty = Empty
  NoValue = NoValue
  Batches <- FullBatches
  a = a
  b = b
  Cursor = {a, b}
  MaxCalls = 2
  MaxRows = 2
SYMMETRY Interchangeable
INVARIANTS
  IteratesInOrder
  RunsWhatWasAsked
  FetchedInOrder
  NoStaleRows
  StatementsAreClosed
PROPERTIES
  NothingRunsAfterClose
CHECK_DEADLOCK FALSE
