SPECIFICATION Spec
CONSTANTS
  u1 = u1
  u2 = u2
  r1 = r1
  v1 = v1
  v2 = v2
  Updaters <- Two
  Resizers <- Resizer
  Values <- TwoValues
  Fields <- Both
  Visits <- Four
  HasSuper <- All
  PrimaryGroup = 0
  MinGroups = 3
  MaxGroups = 4
  MayBeBad <- SecondThird
  Faults <- GrowFault
INVARIANTS FlagHeld UpdatedEverywhere DirectSurvives JournalledTogether
PROPERTIES BadBackupsKept
