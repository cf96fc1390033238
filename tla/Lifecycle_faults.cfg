\* Two sessions that delete, one that exports, and every fault.
SPECIFICATION Spec
CONSTANTS
  e1 = e1
  e2 = e2
  d1 = d1
  d2 = d2
  x1 = x1
  s1 = s1
  s2 = s2
  Manifest = Manifest
  Sections <- TwoSections
  Execs <- OneExec
  Deleters <- TwoDeleters
  Exporters <- OneExporter
  CanFail = TRUE
  CanCrash = TRUE
  OnlyFinished = TRUE
CHECK_DEADLOCK FALSE
SYMMETRY AlikeAll
INVARIANTS TypeOK NoStrandedDetail CountedOnceAndGone ExportWhole
