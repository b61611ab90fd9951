CONSTANTS
  t1 = t1
  t2 = t2
  Threads = {t1, t2}
  Targets <- OneGroup
  GroupsCount = 1
  BlocksPerGroup = 2
  FirstDataBlock = 1
  BlocksCount = 3
  BlockMod = 32
  GroupMod = 8
  CountMod = 4
SPECIFICATION Spec
INVARIANTS
  FreeCountOnDisk
