CONSTANTS
  t1 = t1
  t2 = t2
  Threads = {t1, t2}
  Targets <- OwnGroups
  GroupsCount = 2
  BlocksPerGroup = 2
  FirstDataBlock = 1
  BlocksCount = 4
  BlockMod = 32
  GroupMod = 8
  CountMod = 4
SPECIFICATION MCFairSpec
INVARIANTS
  TypeOK
  GroupConsistent
  SuperblockConsistent
  CrashConsistent
  NothingLost
  NoLeak
PROPERTIES
  ImplementsLedger
  CallsReturn
  DirtyReachesDisk
