SPECIFICATION Spec
CONSTANTS
  MaxDay = 3
  MaxFaults = 1
  CircuitBreakerMax = 3
  NoRow = NoRow
  OpenDays <- MCOpenDays
  RebalanceDays <- MCRebalanceDays
INVARIANT
  RebalanceNotSkipped
\* The last modelled day ends.
CHECK_DEADLOCK FALSE
