SPECIFICATION Spec
CONSTANTS
  Writer = {w1, w2}
  Migration = {m1, m2}
  NoOne = NoOne
  ChildrenOutlive = FALSE
  LinkSettles = FALSE
INVARIANT DurablePause
