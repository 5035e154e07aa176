\* Four-bit numbers: zero, a denormal, four normal numbers, infinity and a NaN
\* of each sign; all pairs of arrays of two of them.
CONSTANTS
  ExpBits = 2
  ManBits = 1
  max_ulps = 1
  size = 2
SPECIFICATION CompareSpec
INVARIANT
  EqualIffNear
