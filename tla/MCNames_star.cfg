CONSTANTS
  Chars <- MCChars
  Star = "*"
  Query = "?"
  Dot = "."
  Lower <- MCLower
  Patterns <- MCPatterns
  Inputs <- MCInputs
  PatternChars = {"*", "a"}
  NameChars = {"*", "a"}
  PatternLen = 2
  NameLen = 3
SPECIFICATION Safe
INVARIANTS
  StarIsAnyRun
