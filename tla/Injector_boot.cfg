CONSTANTS
  pa = pa
  pb = pb
  pc = pc
  g1 = g1
  g2 = g2
  g3 = g3
  Wrappers = {pa, pb, pc}
  Missing = Missing
  Static = Static
  Requests = {r1}
  Gets = {g1, g2, g3}
  Root <- BootRoots
  Context <- OneRequestEach
  Programs <- Considered
  MayThrow = {pc}
SPECIFICATION FairSpec
CHECK_DEADLOCK FALSE
INVARIANT ReportsRealCycle
INVARIANT ChainDrains
INVARIANT SingletonOnce
PROPERTY GetSettles
