\* One connection and three books, so that an amended order is amended again
\* while the first is still on its way out; a client that exited is done.
CONSTANTS
  Tops <- MovingBid
  MaxBooks = 3
  MaxLive = 2
  MaxAttempts = 1
  WireCap = 1
  MaxSeq = 99
SPECIFICATION Spec
INVARIANTS OneRestingPerSide PictureComplete FreshQuotes
CHECK_DEADLOCK FALSE
