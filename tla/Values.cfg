SPECIFICATION MCSpec
CONSTANTS
  Half = 2
  Unnumbered = Unnumbered
  Other = {Unnumbered}
  NoSchema = NoSchema
  Tuples <- MCTuples
  Schemas <- MCSchemas
  None = None
  Depth = 4
  Columns <- MCColumns
INVARIANTS
  EveryValueOnce
  BindsExactly
  RefusesOnlyMisfits
  RowsAreTruncated
  MicrosecondsOrRefused
CHECK_DEADLOCK FALSE
