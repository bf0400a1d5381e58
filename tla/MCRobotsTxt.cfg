SPECIFICATION Spec
CONSTANTS
  Bots = {"gpt", "other", "*"}
  Wildcard = "*"
  MaxLength = 2
  Paths <- MCPaths
  Rpms = {7, 120}
  Policies <- MCPolicies
  Verifiable = {"gpt", "*"}
  Registry <- MCRegistry
  Needles <- MCNeedles
  Requests <- MCRequests
  RobotsPath <- MCRobotsPath
INVARIANTS TypeOK FileAgrees DelaySuffices OrderIrrelevant EvalPredicts
CHECK_DEADLOCK FALSE
