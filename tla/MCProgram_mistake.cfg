CONSTANTS
  r = r  a = a  b = b  s = s  f = f  g = g  h = h  z = z  l = l  i = i
  A = A  B = B  V = V  X = X  p = p  P = P
  logs = logs  models = models
  Dot = Dot  Star = Star  Query = Query
  Chars <- MCChars
  Lower <- MCLower
  ToLowercase <- MCToLowercase
  Presets <- MCPresets
  Documented <- MCDocumented
  Defaults <- MCDefaults
  None = NoBound
  Cpus = 2
  Numerals = {5120, 7680}
  Value <- MCValue
  NaN = NaN
  Kilo = Kilo  Mega = Mega  Giga = Giga  Byte = Byte
  Space = Space
  Upper <- MCUpper
  Fine = 5120
  Least = 5
  Thousand = 4
  Precision = 8
  SizeMax = 10
  Invalid = Invalid
  Dirs <- MCDirs
  Files <- MCFiles
  Others = {l}
  Root = r
  NoDir = NoDir
  Contents <- MCContents
  Bytes <- MCBytes
  NameOf <- MCNameOf
  Continuing = {}
  Glob <- MCGlob
  Options <- MCOptions
  NoBound = NoBound
  FlushAt = 2
  U64Max = 10
  N = 2
  Macos = FALSE
  CommandLines <- MCMistaken
SPECIFICATION ProgramSafe
INVARIANTS
  BoundsHonoured
