\* Two threads: the coordinator is killed between its two last posts.
CONSTANTS
  NbProcess = 2
  NbMetaRepet = 1
SPECIFICATION FairSpec
PROPERTIES
  Terminates
CHECK_DEADLOCK FALSE
