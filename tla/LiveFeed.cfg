SPECIFICATION Spec
CONSTANTS
  aapl = aapl
  msft = msft
  Pipelines <- MCPipelines
  MaxTime = 2
  MaxTicks = 2
  MaxRecords = 2
  BatchSize = 2
INVARIANTS
  TicksConserved
  StoredInOrder
PROPERTIES
  BatchesHandled
CHECK_DEADLOCK FALSE
