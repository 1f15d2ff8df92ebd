SPECIFICATION FamilySpec
CONSTANTS
  None = None
  c1 = c1
  c2 = c2
  c3 = c3
  r1 = r1
  r2 = r2
  a1 = a1
  p1 = p1
  Cards = {c1,c2,c3}
  Runs = {r1,r2}
  Agents = {a1}
  People = {p1}
  NStages = 3
  AgentStages <- ReviewedAgentStages
  GateStages <- ReviewedGateStages
  Returns <- ReviewedReturns
  WipLimit <- ReviewedLimits
  CanWork <- AllCanWork
  MaxConcurrency = 2
  CIRCUIT_BREAKER_LIMIT = 2
  MAX_AUTOMATIC_RETURNS = 1
  ControlPair = FALSE
  Interrupts = FALSE
SYMMETRY Symmetry
INVARIANTS DeferredHeld LinksOrdered
PROPERTIES ParentAfterChildren
CHECK_DEADLOCK FALSE
