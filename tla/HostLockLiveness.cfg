SPECIFICATION FairSpec
CONSTANTS
  r1 = r1
  r2 = r2
  h1 = h1
  h2 = h2
  f1 = f1
  f2 = f2
  Run = {r1}
  Host = {h1, h2}
  File = {f1, f2}
  Target <- TwoTargets
  NoRun = NoRun
  NoHost = NoHost
  TTL = 3
  RenewInterval = 1
  ClockStep = 1
  Phase <- ZeroPhases
  MaxExtend = 3
  FirstHosts = {{h1}, {h1, h2}}
  MoreHosts = {{h1, h2}}
  Declared = {}
  StrictRenewal = FALSE
  OperatorMayUnlock = TRUE
  MaxTime = 4
  MaxInFlight = 2
  MaxExtends = 1
INVARIANT ReleasedForGood
PROPERTIES LossIsNoticed SetSettles
CHECK_DEADLOCK FALSE
