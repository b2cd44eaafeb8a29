\* A ring of two with more records than it holds, so that the owner meets a full
\* ring in every phase of a run.
CONSTANTS
  Records <- AllRecords
  Capacity = 2
  MaxEvents = 3
  MaxDropped = 2
SPECIFICATION Spec
INVARIANTS HealthyMeansComplete FileAccounted CrashIsOnFile
PROPERTIES WriterProgress
