\* Two sessions admitted and enough connections to exceed either tier; two laps of
\* the looping script.  A run that returned or threw is over.
CONSTANTS
  Conns = {a, b, c, d}
  MaxSessions = 2
  Files <- MCFiles
  MaxBooks = 2
SPECIFICATION Spec
INVARIANTS AdmissionHolds FinalizedOnceAtTheEnd
PROPERTIES ReplayFollowsScript ServerProgress
CHECK_DEADLOCK FALSE
