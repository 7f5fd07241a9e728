\* Two clients that measure in every order, with two servers one after the
\* other, or with one server and one unit of energy: a measurement is a sum
\* over the units consumed, so one unit shows every unit that is misplaced.
CONSTANTS
  Clients = {c1, c2}
  MaxMeasures = 1
  MaxEvents = 2
SPECIFICATION FairSpec
INVARIANTS
  NoAnswerUnasked
  MeasuresOwn
PROPERTIES
  RequestAnswered
  StopEnds
\* Nobody has to start a server or a measurement.
CHECK_DEADLOCK FALSE
