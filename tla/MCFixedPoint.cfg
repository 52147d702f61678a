SPECIFICATION Spec
CONSTANTS
  Half = 4
  Frac = 2
  KRows = 2
  KCols = 2
  Ks <- MCKs
  Xs <- MCXs
  Us <- MCUs
INVARIANTS

  FixedPointLaw
