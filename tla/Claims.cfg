\* What the explanations of mismatches promise the reader of a page.
CONSTANTS
  MinuteLen = 6
  Interval = 6
  MaxTick = 6
  MaxGap = 2
  MaxMinute = 5
  Scale <- Hundred
  RowCounts <- PastTwice
  Failures <- UpToFive
  Tolerances <- SmallRates
  Low <- FieldLow
  High <- FieldHigh
  Names <- FieldNames
  Presets <- NamedExpressions
  At <- Calendar
  Lookahead = 48
  Star = Star
  Blank = Blank
  None = None
  Sun = Sun
  Mon = Mon
  Tue = Tue
  Jan = Jan
  Daily = Daily
  CaseFold <- Lowered
  OtherSpelling <- Swapped
  NULL = NULL
  BLANK = BLANK
  LetterFold <- Caseless
  Width = 2
  SheetRows = 2
  BatchRows = 2
  PdfRows = 2
  MinRows = 2
  One = 2
  Fraction = 2
  Rtol = 64
  Atol = 16
  Eps = 64
  Tasks <- OnlyMismatches
  Pending = Pending
  Ceiling = 3
  Chunk = 2
  NoLimit = NoLimit
  RowLimits <- SomeLimits
  Sizes <- SomeSizes
  Processes = {p1, p2, p3}
  Keys = {k1, k2}
  Added = 3
  Absent = Absent
  Empty = Empty
  FirstStartsAlone = TRUE
  Sessions = {s1, s2}
  Ids = {1, 2}
  Typed = {n1}
  MaxUse = 1
  NoId = NoId
  Users = {u1, u2}
  Default = Default
  Others = {q1, q2}
  Suites = {1, 2, 3}
  Items = {1, 2, 3}
  Labels = {l1, l2}
  t1 = t1
  t2 = t2
  t3 = t3
  c1 = c1
  c2 = c2
  c3 = c3
  Threads <- ThreeThreads
  Conns <- ThreeConns
  ConnOf <- Private
  MaxCalls = 2
  CanRaise = TRUE
  CanLock = TRUE
  CanCrash = TRUE
SPECIFICATION UnitsSpec
INVARIANTS ExactlyIsLiteral
CHECK_DEADLOCK FALSE
