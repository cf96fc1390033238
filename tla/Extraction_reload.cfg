\* Forms of every type, submitted, saved and opened.
CONSTANTS
  Ceiling = 3
  Chunk = 2
  NoLimit = NoLimit
  RowLimits = {1}
  Sizes = {2}
SPECIFICATION ExtractionSpec
INVARIANT SavedConnectionsOpen
CHECK_DEADLOCK FALSE
