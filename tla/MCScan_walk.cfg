CONSTANTS
  r = r  a = a  b = b  s = s  f = f  g = g  h = h  z = z  l = l
  N = 2
  Dirs <- MCDirs
  Files <- MCFiles
  Others = {l}
  Root = r
  NoDir = NoDir
  Contents <- MCContents
  Hits = {g, h, b}
  Skips = {s}
  Bytes <- MCBytes
  Options <- MCOptions
  NoBound = NoBound
  FlushAt = 2
  U64Max = 9
SPECIFICATION Spec
INVARIANTS
  TypeOK
  EachMatchOnce
  CountExact
  TotalExact
  BufferBounded
  Pruned
PROPERTIES
  ContractSafe
  Termination
  ClosedPipeEnds
