SPECIFICATION Spec
CONSTANTS
  None = None
  c1 = c1
  r1 = r1
  r2 = r2
  a1 = a1
  p1 = p1
  Cards = {c1}
  Runs = {r1,r2}
  Agents = {a1}
  People = {p1}
  NStages = 2
  AgentStages <- ShortAgentStages
  GateStages <- ShortGateStages
  Returns <- ShortReturns
  WipLimit <- ShortLimits
  CanWork <- AllCanWork
  MaxConcurrency = 1
  CIRCUIT_BREAKER_LIMIT = 2
  MAX_AUTOMATIC_RETURNS = 1
  ControlPair = FALSE
  Interrupts = FALSE
INVARIANTS NoStaleNeeds
CHECK_DEADLOCK FALSE
