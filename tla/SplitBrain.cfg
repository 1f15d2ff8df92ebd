SPECIFICATION Spec
CONSTANTS
  None = None
  c1 = c1
  r1 = r1
  r2 = r2
  a1 = a1
  a2 = a2
  p1 = p1
  Cards = {c1}
  Runs = {r1,r2}
  Agents = {a1,a2}
  People = {p1}
  NStages = 3
  AgentStages <- ReviewedAgentStages
  GateStages <- ReviewedGateStages
  Returns <- ReviewedReturns
  WipLimit <- ReviewedLimits
  CanWork <- AllCanWork
  MaxConcurrency = 1
  CIRCUIT_BREAKER_LIMIT = 2
  MAX_AUTOMATIC_RETURNS = 1
  ControlPair = FALSE
  Interrupts = TRUE
INVARIANTS OneWorkingRun
CHECK_DEADLOCK FALSE
