\* Periods whose greatest common divisor is above the tolerance.
CONSTANT Periods <- SlowPeriods
SPECIFICATION FairSpec
PROPERTIES
  UpdatedPeriodically
\* The collector is destroyed, or its owner stops using it.
CHECK_DEADLOCK FALSE
