\* Matrices of size 2 and 3 with elements of two values, so that each of the
\* three mirrored pairs can differ from the others; files of up to three elements,
\* which may be for the same place, a place and its mirror image, or others, and
\* on either side of the matrix.
CONSTANTS
  Sizes = {2, 3}
  MaxNonzero = 3
  Numbers = {0, 1, 2, 3, 4}
  Values = {1, 2}
  alpha = 2
  beta = 3
SPECIFICATION DsymvSpec
INVARIANTS
  LoadedAsListed
  PartialProduct
