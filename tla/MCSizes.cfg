CONSTANTS
  lower_g = lower_g
  nan = nan
  Numerals <- MCNumerals
  Value <- MCValue
  NaN = NaN
  Kilo = K  Mega = M  Giga = G  Byte = B
  Space = Space
  Upper <- MCUpper
  Fine = 5120
  Least = 5
  Thousand = 4
  Precision = 8
  SizeMax = 127
  Invalid = Invalid
  Texts <- MCTexts
SPECIFICATION Safe
INVARIANTS
  TypeOK
  SizeMeaning
  OrderKept
  Accurate
