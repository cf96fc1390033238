SPECIFICATION Spec
CONSTANTS
  e1 = e1
  e2 = e2
  d1 = d1
  d2 = d2
  x1 = x1
  s1 = s1
  s2 = s2
  Manifest = Manifest
  Sections <- TwoSections
  Execs <- OneExec
  Deleters <- OneDeleter
  Exporters <- Nobody
  CanFail = FALSE
  CanCrash = FALSE
  OnlyFinished = FALSE
CHECK_DEADLOCK FALSE
INVARIANTS NoStrandedDetail
