CONSTANTS
  t1 = t1
  t2 = t2
  Threads = {t1}
  Targets <- Padding
  GroupsCount = 2
  BlocksPerGroup = 2
  FirstDataBlock = 1
  BlocksCount = 4
  BlockMod = 32
  GroupMod = 8
  CountMod = 4
SPECIFICATION Spec
INVARIANTS
  FreeMatchesBlocks
