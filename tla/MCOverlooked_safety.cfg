CONSTANTS
  r = r  a = a  b = b  c = c  d = d
  N = 3
  Dirs <- MCDirs
  Root = r
  NoDir = NoDir
  Parent <- MCParent
  Readings <- Complete
  UsizeMax = 7
  DelayedStores = TRUE
SPECIFICATION OverlookedSafe
INVARIANTS
  TypeOK
  PendingExact
  NoDuplicate
  SafeShutdown
  ParkedExact
  OwnerAwake
  DepthFirst
  NoneStranded
  OnlyOverlooked
PROPERTIES
  QuiescenceStable
