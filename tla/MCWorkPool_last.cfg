CONSTANTS
  r = r  a = a  b = b  c = c  d = d
  N = 2
  Dirs <- MCDirs
  Root = r
  NoDir = NoDir
  Parent <- MCParent
  Readings <- Complete
  UsizeMax = 7
  DelayedStores = TRUE
SPECIFICATION Safe
PROPERTIES
  ShutdownByLast
