\* The smallest matrix will do.
CONSTANTS
  Sizes = {1}
  MaxNonzero = 0
  Numbers = {1}
  Values = {1, 2}
  alpha = 2
  beta = 3
SPECIFICATION DsymvSpec
INVARIANT
  ComputesDsymv
