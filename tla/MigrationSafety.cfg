SPECIFICATION Spec
CHECK_DEADLOCK FALSE
CONSTANTS
  Workspace <- Workspaces
  Index <- Positions
  Instance <- Instances
  Home <- Homes
  Dest <- Dests
  Fresh <- Freshes
  NoRecovery = NoRecovery
  Bumps = {0, 1}
  MaxRev = 1
INVARIANTS MigrationInv JournalTruthful
PROPERTIES ImplementsTransfer NoWriteLost
