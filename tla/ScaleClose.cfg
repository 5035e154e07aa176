\* All squares of black and white pixels: sums at the edge of a byte, and
\* every way of rounding, for 255 is odd.
CONSTANT Levels = {0, 255}
SPECIFICATION ScaleSpec
INVARIANT
  CloseToSerial
