\* Three threads and their coordinator, two overhead and two real kernels.
CONSTANTS
  NbProcess = 3
  NbMetaRepet = 2
SPECIFICATION FairSpec
INVARIANTS
  StartTogether
  KilledAfterLastKernel
  NoStaleToken
PROPERTIES
  RoundBarrier
  AllMeasured
\* The program ends, or its threads wait for a coordinator that was killed.
CHECK_DEADLOCK FALSE
