SPECIFICATION Spec
CONSTANTS
  Script = {s1, s2, s3}
  Run = {r1, r2}
  NoRun = NoRun
  MaxLease = 2
  GuardWait = 1
  MaxTime = 2
  MaxBoot = 1
  BootIdFollowsClock = FALSE
SYMMETRY Symmetry
INVARIANT GuardInv
PROPERTY ImplementsRecord
