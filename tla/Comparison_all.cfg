\* Texts, numbers, tolerances, chunks, numbers doubles cannot hold and columns of
\* mixed content, one kind of call after the other.
CONSTANTS
  x1 = x1  X1 = X1  y1 = y1  c1 = c1  c2 = c2
  NULL = NULL
  Keys <- AllKeys
  Columns <- TwoColumns
  Texts <- TwoTexts
  Numbers <- AllNumbers
  Fold <- FoldCase
  MaxExact <- Eight
  Scale <- Million
  Inputs <- AllCalls
SPECIFICATION FairSpec
INVARIANTS TypeOK RowsAreJudgedAsMeant MatchesAreAccountedFor
           DiffDescribesMismatches EveryRowIsCounted
PROPERTIES Terminates
CHECK_DEADLOCK FALSE
