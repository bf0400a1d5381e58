SPECIFICATION Spec
CONSTANTS
  c1 = c1
  Requests = {r1, r2}
  LegacyRows = {l1}
  MaxSecond = 1
  LastFraction = 5
  Grain = 3
  MaxGenerations = 2
  Commands <- MCCommands
  Handles <- MCHandles
  Instants <- MCInstants
SYMMETRY Symmetry
INVARIANTS TypeOK NothingLeaks  OpensComplete ExportVerifies WindowsHonest
CHECK_DEADLOCK FALSE
