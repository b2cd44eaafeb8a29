\* Three order ids; a mark of one report, so that a stalled write crosses it; a
\* session that is torn down has come to its end.
CONSTANTS
  Ids = {i, j, k}
  MaxLive = 2
  ReportHwm = 1
  MaxEntries = 3
  MaxReports = 5
  MaxBooks = 2
SPECIFICATION Spec
INVARIANTS MessagesAccounted PolicyCloseDrains RetiredAtIntent ReportQueueBounded
PROPERTIES CloseIsFinal CloseConverges
CHECK_DEADLOCK FALSE
