SPECIFICATION Spec
CONSTANTS
  None = None
  c1 = c1
  c2 = c2
  r1 = r1
  r2 = r2
  a1 = a1
  a2 = a2
  p1 = p1
  Cards = {c1,c2}
  Runs = {r1,r2}
  Agents = {a1,a2}
  People = {p1}
  NStages = 2
  AgentStages <- ShortAgentStages
  GateStages <- ShortGateStages
  Returns <- ShortReturns
  WipLimit <- OneAtWork
  CanWork <- AllCanWork
  MaxConcurrency = 1
  CIRCUIT_BREAKER_LIMIT = 2
  MAX_AUTOMATIC_RETURNS = 1
  ControlPair = FALSE
  Interrupts = FALSE
INVARIANTS WipAtClaim
CHECK_DEADLOCK FALSE
