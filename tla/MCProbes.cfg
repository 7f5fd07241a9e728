CONSTANTS
  \* Two units of energy, one fault, three measurements: an answer that a fault
  \* leaves on the line is read by the next request, and that one's by another. Numbers have a leading zero.
  MaxDigits = 2
  MaxUnits = 2
  MaxFaults = 1
  MaxRequests = 3
  \* Two sockets whose counters wrap after two units.
  NbCPUs = 2
  NbSockets = 2
  Wrap = 2
  MaxEnergy = 2
  MaxMeasures = 2
  \* Two counters of one core (another core would only repeat the names), whose
  \* counts wrap after a product has been exact and after one has not. They go
  \* on for ever, so that one measurement can begin at any of their values.
  MaxCores = 1
  Names = {"good", "bad", ""}
  MaxNames = 2
  MaxChannels = 2
  Width = 4
  Exact = 2
  MaxTicks = 4
  MaxRounds = 1
  \* Means of up to three samples.
  Powers = {0, 3}
  MaxSamples = 3
  MaxTime = 2
  MaxRuns = 2
  \* A cycle counter that wraps once, and a clock that is set twice.
  CycleWrap = 3
  MaxNow = 5
  MaxSteps = 2
  \* Three cores: a thread that runs ahead, one that lags and one between them.
  NbCores = 3
  \* Two wraps within a measurement, and one between two measurements.
  PmcWrap = 3
  MaxCycles = 8
  MaxLines = 3
SPECIFICATION FairSpec
INVARIANTS
  OwnEnergy
  NoDoubleCount
  ExactEnergy
  CountsEvents
  OwnMean
  ElapsedTime
  CyclesAccounted
  InStep
  ResultIsOwn
PROPERTIES
  RequestReturns
  CallsReturn
\* A probe may be ended, or not be used any more.
CHECK_DEADLOCK FALSE
