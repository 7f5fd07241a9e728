\* Anyone sends up to seven signals, in every order and at every point: three
\* measurements, one that is cut short, and a last SIGTERM. Or the scripts
\* make three runs of three processes on this node.
CONSTANTS
  MaxSignals = 7
  NREPET = 3
  Ranks = {0, 1, 2}
  CommandLines <- MCCommandLines
SPECIFICATION FairSessionSpec
INVARIANTS
  KeptBySignals
  PidMeansHandled
  ResultsSaved
  OneMeasurementEachRun
  MovedIsComplete
PROPERTIES
  TermEndsDaemon
\* The daemon ends, or nobody signals it any more.
CHECK_DEADLOCK FALSE
