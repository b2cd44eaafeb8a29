\* A ring of two slots that a decision overfills; four orders reach the limit and
\* pass a requote; the bounds end the run.
CONSTANTS
  Capacity = 2
  MaxPushes = 6
  OrderSize = 5
  MaxPosition = 5
  HalfSpread = 2
  Ticks <- MCTicks
  DepthTargets <- MCDepthTargets
  FillSizes = {4, 5}
  MaxOrders = 4
SPECIFICATION MakerSpec
INVARIANTS OrdersArrive KnownPositionBounded QuotesStand
CHECK_DEADLOCK FALSE
