\* Columns that hold strings and numbers, trimmed.
CONSTANTS
  x1 = x1  X1 = X1  y1 = y1  c1 = c1  c2 = c2
  NULL = NULL
  Keys <- AllKeys
  Columns <- TwoColumns
  Texts <- TwoTexts
  Numbers <- AllNumbers
  Fold <- FoldCase
  MaxExact <- Eight
  Scale <- Million
  Inputs <- MixedCalls
SPECIFICATION Spec
INVARIANTS FoldingTouchesStringsOnly
CHECK_DEADLOCK FALSE
