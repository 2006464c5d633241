SPECIFICATION FairSpec
CONSTANTS
  r1 = r1
  r2 = r2
  e1 = e1
  g1 = g1
  s1 = s1
  Stray = s1
  NoRun = NoRun
  NoPlan = NoPlan
  NoSource = NoSource
  Run = {r1, r2}
  Endpoint = {e1}
  Guest = {g1}
  CredentialHost = e1
  Source = {merged, dirty}
  Clean = {merged}
  Merged = {merged}
  ChangesBack = FALSE
  Jobs <- JobsOfTwo
  Touches <- LockedOrStray
INVARIANTS
  MutationInv
  AppliedAsReviewed
  SourceBound
  CredentialInForce
PROPERTIES
  ImplementsLease
  LossEnds
CHECK_DEADLOCK FALSE
