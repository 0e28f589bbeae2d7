CONSTANTS
  Chars <- MCChars
  Star = "*"
  Query = "?"
  Dot = "."
  Lower <- MCLower
  Patterns <- MCPatterns
  Inputs <- MCInputs
  PatternChars = {"*", "?", ".", "a"}
  NameChars = {".", "a", "A"}
  PatternLen = 4
  NameLen = 3
SPECIFICATION Safe
INVARIANTS
  TypeOK
  NoMatchLost
  Correct
  Quadratic
  SkipAgrees
  ExtensionAgrees
