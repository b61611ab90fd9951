SPECIFICATION FairSpec
CONSTANTS
  t1 = t1
  f1 = f1
  f2 = f2
  g1 = g1
  Boot = boot
  Unused = unused
  Nobody = nobody
  NoPages = nopages
  Empty = empty
  Blocks <- Sizes
  Threads <- OneThread
  Files <- TwoFiles
  Generations <- OneGeneration
  Faults <- AnyFault
INVARIANTS Released KeepsContents NoStalePages NoDioAcrossSwap
PROPERTIES SwapReturns NothingDropped ImplementsExchange
