\* Two sessions, two ids each; every call may also run out of memory.
CONSTANTS
  Sessions = {1, 2}
  ClIds = {1, 2}
  Offers <- MCOffers
  Tops <- MCTops
  MdSeqs = {0, 1}
  Symbol = "sym"
  TickSize = 2
  LotSize = 2
  MaxOrderQty = 4
  MinPrice = 2
  MaxPrice = 20
  MaxLiveOrders = 1
  MaxSessionEntries = 2
  MaxStale = 1
SPECIFICATION Spec
VIEW WithoutOut
INVARIANTS WellFormed QuantityConserved TerminalReportOnce
PROPERTIES OrderLife ImplementsContract
