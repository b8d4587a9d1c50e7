SPECIFICATION Spec
CONSTANTS
  a = a
  b = b
  Orders <- MCOrders
  Batch <- MCBatch
  Quantity <- MCQuantity
  MaxDay = 2
  MaxFaults = 1
  MaxSends = 2
  NoRow = NoRow
  NoTracker = NoTracker
INVARIANT
  FilledNotSentAgain
\* The last modelled day ends.
CHECK_DEADLOCK FALSE
