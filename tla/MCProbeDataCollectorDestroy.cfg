\* The condition is signalled before the thread waits for it.
CONSTANT Periods <- FastPeriods
SPECIFICATION FairSpec
PROPERTIES
  DestructorAlwaysEnds
\* The collector is destroyed, or its owner stops using it.
CHECK_DEADLOCK FALSE
