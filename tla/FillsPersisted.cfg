SPECIFICATION Spec
CONSTANTS
  buy = buy
  later = later
  sell = sell
  Orders <- MCOrders
  Buys <- MCBuys
  Quantity <- MCQuantity
  OnMain <- MCOnMain
  InitialPosition = 0
  MaxReports <- MCMaxReports
  MaxDbFailures = 0
INVARIANT
  FillsPersisted
\* The session ends when the orders are done.
CHECK_DEADLOCK FALSE
