SPECIFICATION SchemaSpec
INVARIANTS
  DatabaseSound
PROPERTIES
  HistoryKept
