\* One client and one server: energy consumed between the answer to start and
\* the server's new start.
CONSTANTS
  Clients = {c1}
  MaxMeasures = 1
  MaxEvents = 2
SPECIFICATION FairSpec
INVARIANTS
  MeasuresAll
CHECK_DEADLOCK FALSE
