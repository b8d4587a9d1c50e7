SPECIFICATION Spec
CONSTANTS
  a = a
  b = b
  Orders <- MCOrders
  Batch <- MCBatch
  Quantity <- MCQuantity
  MaxDay = 1
  MaxFaults = 1
  MaxSends = 2
  NoRow = NoRow
  NoTracker = NoTracker
INVARIANT
  NeverOverfilled
\* The last modelled day ends.
CHECK_DEADLOCK FALSE
