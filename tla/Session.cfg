SPECIFICATION LiveSpec
CONSTANTS
  MaxConn = 3
  MaxCommands = 2
  Slots = 1
  Window = 2
  EventBatchSize = 2
  CommandBatchSize = 2
  Scenarios <- MCScenarios
INVARIANTS TypeOK CurrentStaysReady CommandsAcceptable
PROPERTIES RecordsALog CommandsSettle
CHECK_DEADLOCK FALSE
