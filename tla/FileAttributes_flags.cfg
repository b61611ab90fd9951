SPECIFICATION Spec
CONSTANTS
  t1 = t1
  t2 = t2
  p0 = p0
  p1 = p1
  g0 = g0
  g1 = g1
  Nobody = nobody
  Astray = astray
  DefProject = p0
  Threads <- OneThread
  Flags <- DaxFlags
  Projects <- OneProject
  Generations <- TwoGenerations
  Mounts <- FlagMounts
  Faults <- AnyFault
INVARIANTS SuccessMeansAll DaxNotJournalled NoDioToImmutable ImmutableKept
