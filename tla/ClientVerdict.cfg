\* One book, so that the feed goes stale under quotes whose cancels the engine
\* does not read.
CONSTANTS
  Tops <- MovingBid
  MaxBooks = 1
  MaxLive = 2
  MaxAttempts = 2
  WireCap = 1
  MaxSeq = 99
SPECIFICATION Spec
INVARIANT VerdictIsFinal
CHECK_DEADLOCK FALSE
