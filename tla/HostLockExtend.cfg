SPECIFICATION Spec
CONSTANTS
  r1 = r1
  r2 = r2
  h1 = h1
  h2 = h2
  f1 = f1
  f2 = f2
  Run = {r1}
  Host = {h1}
  File = {f1}
  Target <- OneTarget
  NoRun = NoRun
  NoHost = NoHost
  TTL = 4
  RenewInterval = 1
  ClockStep = 2
  Phase <- OnePhase
  MaxExtend = 6
  FirstHosts = {{h1}}
  MoreHosts = {}
  Declared = {7, 8}
  StrictRenewal = TRUE
  OperatorMayUnlock = FALSE
  MaxTime = 7
  MaxInFlight = 2
  MaxExtends = 2
INVARIANTS ScopeIsBacked BlockIsBounded
PROPERTIES ExpiryNeverShrinks
CHECK_DEADLOCK FALSE
