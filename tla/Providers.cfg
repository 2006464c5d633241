SPECIFICATION Spec
CHECK_DEADLOCK FALSE
CONSTANTS
  first = first
  second = second
  tag1 = tag1
  tag2 = tag2
  version1 = version1
  digest1 = digest1
  digest2 = digest2
  binary1 = binary1
  binary2 = binary2
  Run = {first, second}
  Pid = {1, 2}
  Archive = {tag1, tag2}
  Target = {version1}
  Digest = {digest1, digest2}
  Binary = {binary1, binary2}
  Pins <- Pinning
  Member <- Members
  Served <- Offers
  MaxLosses = 1
  Nothing = Nothing
INVARIANTS ProvidersInv RefusedForReason
PROPERTY NeverReplaced
