SPECIFICATION Spec
CONSTANTS
  None = None
  c1 = c1
  r1 = r1
  r2 = r2
  r3 = r3
  a1 = a1
  p1 = p1
  Cards = {c1}
  Runs = {r1,r2,r3}
  Agents = {a1}
  People = {p1}
  NStages = 4
  AgentStages <- LongAgentStages
  GateStages <- LongGateStages
  Returns <- LongReturns
  WipLimit <- LongLimits
  CanWork <- AllCanWork
  MaxConcurrency = 1
  CIRCUIT_BREAKER_LIMIT = 2
  MAX_AUTOMATIC_RETURNS = 1
  ControlPair = TRUE
  Interrupts = FALSE
SYMMETRY Symmetry
INVARIANTS LeasesMatch GatesMatch ParkedSaysWhy BreakerHolds
PROPERTIES OnlyPeopleUnpark LeasesLent
CHECK_DEADLOCK FALSE
