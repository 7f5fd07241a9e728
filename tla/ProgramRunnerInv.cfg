\* Four threads, so that two of them can be at different points while a third
\* is already in the next round; two measurements of each program.
CONSTANTS
  NbProcess = 4
  NbMetaRepet = 2
SPECIFICATION FairSpec
INVARIANTS
  StartTogether
  MeasurementCoversRuns
  CleanFinish
PROPERTIES
  IterationBarrier
  Terminates
  Refinement
\* The program ends.
CHECK_DEADLOCK FALSE
