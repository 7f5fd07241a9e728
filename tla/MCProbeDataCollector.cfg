\* A probe that is not updated and two that are.
CONSTANT Periods <- FastPeriods
SPECIFICATION FairSpec
INVARIANTS
  NoUseAfterDelete
PROPERTIES
  DestructorEnds
  UpdatedPeriodically
\* The collector is destroyed, or its owner stops using it.
CHECK_DEADLOCK FALSE
