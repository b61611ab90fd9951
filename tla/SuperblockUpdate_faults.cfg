SPECIFICATION FairSpec
CONSTANTS
  u1 = u1
  u2 = u2
  r1 = r1
  v1 = v1
  v2 = v2
  Updaters <- One
  Resizers <- NoThreads
  Values <- TwoValues
  Fields <- Label
  Visits <- Four
  HasSuper <- All
  PrimaryGroup = 0
  MinGroups = 4
  MaxGroups = 4
  MayBeBad <- Second
  Faults <- AnyFault
INVARIANTS CreditsSuffice NoLeak
PROPERTIES CallsReturn
