SPECIFICATION Spec
CONSTANTS
  a = a
  b = b
  N = 4
  Cons <- MCCons
  Orders <- MCOrders
  Totals <- MCTotals
  Days <- MCDays
  Capital <- MCCapital
  MaxEvents = 1
  MaxRestarts = 2
INVARIANTS
  BooksBalance
  PositionIsOpenLots
  CommissionAccounted
  SettledBalanceIsFresh
PROPERTIES
  RefusedOnlyOutOfOrder
\* The day ends when everything is delivered.
CHECK_DEADLOCK FALSE
