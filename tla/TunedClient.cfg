\* Both attempts of the policy; three frames of the first carry a message past a
\* cap of two fragments, an orphan, two interleaved messages or a message behind
\* another, and one of the second a message, a verdict, a failure or an open
\* message.  A client that exited is done.
CONSTANTS
  MaxAttempts = 2
  MaxMsg = 2
  MaxFrames = 1
  MaxEarly = 3
SPECIFICATION Spec
INVARIANTS ReassemblyExact VerdictSurvives
PROPERTIES OneSessionDrives TunedClientEnds
CHECK_DEADLOCK FALSE
