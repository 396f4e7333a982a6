SPECIFICATION Spec
CONSTANTS
  Names = {n1, n2}
  Passes = {p1, p2}
  MaxKeys = 3
  Missing = Missing
  Empty = Empty
INVARIANTS
  PairMatches
  SavedIsLoadable
  FingerprintIsCurrent
