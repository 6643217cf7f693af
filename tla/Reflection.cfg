SPECIFICATION Spec
CONSTANTS
  Schema <- OneSchema
  Table <- TwoTables
  Version <- OneVersion
  Adapters <- Adapter
  MaxChanges = 2
INVARIANTS
  ReadsAgree
  ShownExisted
  EntriesWereTrue
PROPERTIES
  ShownIsNeverMissing
