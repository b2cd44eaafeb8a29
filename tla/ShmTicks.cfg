\* A ring of two slots fed by push_overwrite.
CONSTANTS
  Capacity = 2
  MaxPushes = 4
SPECIFICATION MarketSpec
INVARIANT TicksGetFresher
