\* The two attempts of the client, with a book for each; a client that exited is
\* done.
CONSTANTS
  Tops <- Locking
  MaxBooks = 2
  MaxLive = 2
  MaxAttempts = 2
  WireCap = 1
  MaxSeq = 3
SPECIFICATION Spec
INVARIANTS WireDiscipline EndingMatchesWire
PROPERTIES ClientEnds
CHECK_DEADLOCK FALSE
