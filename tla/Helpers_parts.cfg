SPECIFICATION Spec
CONSTANTS
  a = a
  b = b
  i = i
  j = j
  Mappings = 4
  Special = {2, 4}
  MaxRecs = 3
  MountFeatures <- AllFeatures
  OtherNames <- UnknownNames
  ArgSizes = {0, 4, 8, 36, 40}
  Word = 8
  RecLens <- BoundaryLens
  Lockers = {a, b}
  IoEnds = {a, b}
  Waiters = {a, b}
  IoInode <- IoInodes
  WaitInode <- WaitInodes
  Writers = {a, b}
  MaxSize = 3
INVARIANTS Truthful CompatAgrees RoundTrips
PROPERTIES CountersSafe
