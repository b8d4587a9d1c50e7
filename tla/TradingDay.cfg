SPECIFICATION Spec
CONSTANTS
  MaxDay = 3
  MaxFaults = 3
  CircuitBreakerMax = 3
  NoRow = NoRow
  OpenDays <- MCOpenDays
  RebalanceDays <- MCRebalanceDays
INVARIANTS
  TypeOK
  SessionLoadsOnce
  CompletedMeansStopped
  RecoveryResumes
PROPERTIES
  SessionAdvances
  OutageRecovers
  OpenDaysServed
\* The last modelled day ends.
CHECK_DEADLOCK FALSE
