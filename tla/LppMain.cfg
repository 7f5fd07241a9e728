CONSTANTS
  \* Unset, one, two, and more than there is memory for.
  Numbers = {0, 1, 2, 9}
  Pinnings <- MCPinnings
  ProbesPaths <- MCProbesPaths
  Programs <- MCPrograms
  \* Two processes, their cores, and one option more.
  MaxOptions = 3
  Libraries <- MCLibraries
  DefaultProbes <- MCDefaultProbes
  Memory = 8
  \* The vector of a daemon grows twice.
  MaxMeasurements = 3
  \* Two iterations of nine bytes are more than a size.
  Descriptors = {0, 3}
  Width = 16
  Sizes = {0, 5}
SPECIFICATION Spec
INVARIANTS
  PinnedWithinList
  LeavesNothing
  NoMissingFunction
  RoomAndMean
  RowsAreNet
\* lPowerProbe ends.
CHECK_DEADLOCK FALSE
