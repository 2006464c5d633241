SPECIFICATION FairSession
CONSTANTS
  Writer = {w1, w2}
  Migration = {m1, m2}
  Command = {c1, c2}
  NoOne = NoOne
  Nobody = Nobody
  Missing = Missing
  ChildrenOutlive = FALSE
  LinkSettles = TRUE
  Configurations <- MCConfigurations
  Moves <- MCMoves
  Inherited <- MCInherited
INVARIANTS
  PauseInv
  SessionInv
PROPERTIES
  ImplementsAdmission
  CommandsEnd
