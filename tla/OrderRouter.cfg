SPECIFICATION RouterSpec
CONSTANTS
  l1 = l1
  l2 = l2
  p1 = p1
  p2 = p2
  NoOrder = NoOrder
  Trackers <- MCTrackers
  LiveOrders <- MCLiveOrders
INVARIANTS
  RouterTypeOK
  ExactlyOnePlace
  FifoPerMode
  DrainedAtStop
PROPERTIES
  EventuallyHanded
  ImplementsDelivery
\* The thread returns and the last order is routed: the component stops.
CHECK_DEADLOCK FALSE
