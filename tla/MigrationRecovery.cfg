SPECIFICATION FairSpec
CHECK_DEADLOCK FALSE
CONSTANTS
  Workspace <- TwoWorkspaces
  Index <- TwoPositions
  Instance <- TwoInstances
  Home <- TwoHomes
  Dest <- TwoDests
  Fresh <- Freshes
  NoRecovery = NoRecovery
  Bumps = {0, 1}
  MaxRev = 1
PROPERTY Recoverable
