\* One SIGTERM is enough.
CONSTANTS
  MaxSignals = 2
SPECIFICATION FairSpec
PROPERTIES
  TermAlwaysEnds
\* The daemon ends, or nobody signals it any more.
CHECK_DEADLOCK FALSE
