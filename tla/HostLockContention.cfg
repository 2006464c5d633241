SPECIFICATION Spec
CONSTANTS
  r1 = r1
  r2 = r2
  h1 = h1
  h2 = h2
  f1 = f1
  f2 = f2
  Run = {r1, r2}
  Host = {h1}
  File = {f1}
  Target <- OneTarget
  NoRun = NoRun
  NoHost = NoHost
  TTL = 4
  RenewInterval = 1
  ClockStep = 2
  Phase <- OnePhase
  MaxExtend = 4
  FirstHosts = {{h1}}
  MoreHosts = {}
  Declared = {}
  StrictRenewal = FALSE
  OperatorMayUnlock = FALSE
  MaxTime = 6
  MaxInFlight = 2
  MaxExtends = 1
SYMMETRY RunSymmetry
INVARIANTS IInv
PROPERTIES OnlyExpiredIsTaken ImplementsLease
CHECK_DEADLOCK FALSE
