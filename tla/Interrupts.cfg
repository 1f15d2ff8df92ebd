SPECIFICATION Spec
CONSTANTS
  None = None
  c1 = c1
  r1 = r1
  r2 = r2
  r3 = r3
  a1 = a1
  p1 = p1
  Cards = {c1}
  Runs = {r1,r2,r3}
  Agents = {a1}
  People = {p1}
  NStages = 3
  AgentStages <- ReviewedAgentStages
  GateStages <- ReviewedGateStages
  Returns <- ReviewedReturns
  WipLimit <- ReviewedLimits
  CanWork <- AllCanWork
  MaxConcurrency = 3
  CIRCUIT_BREAKER_LIMIT = 2
  MAX_AUTOMATIC_RETURNS = 1
  ControlPair = FALSE
  Interrupts = TRUE
SYMMETRY Symmetry
INVARIANTS TypeOK LeaseOK QuestionsAlive
PROPERTIES AutomationProgresses
CHECK_DEADLOCK FALSE
