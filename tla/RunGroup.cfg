SPECIFICATION FairSpec
CONSTANTS
  Byte = {"a", "b"}
  Patterns <- Overlapping
  Proc = {leader, child}
  Leader = leader
  Mode = {"RunGroup", "Run", "Run on a terminal"}
  MaxBytes = 3
  Capacity = 2
  ForksDuringScan = FALSE
  NoChunk = NoChunk
INVARIANTS GroupInv Redacts OutputWhole NoMemberLeft
PROPERTY GroupReturns
CHECK_DEADLOCK FALSE
