SPECIFICATION Spec
CONSTANTS
  a = a
  b = b
  Orders <- MCOrders
  Batch <- MCBatch
  Quantity <- MCQuantity
  MaxDay = 2
  MaxFaults = 2
  MaxSends = 2
  NoRow = NoRow
  NoTracker = NoTracker
INVARIANTS
  ReplayCompletes
PROPERTIES
  ResentWithReason
  StagedIsSent
\* The last modelled day ends.
CHECK_DEADLOCK FALSE
