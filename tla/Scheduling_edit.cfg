\* A schedule saved while a tick is under way.
CONSTANTS
  d1 = d1  r1 = r1  e1 = e1
  NoCron = NoCron
  Suites <- OneSuite
  Crons <- EveryMinute
  Schedulers <- OneScheduler
  Runners <- NoProcess
  Editors <- OneEditor
  NotifyOn = "failure"
  CanCrash = FALSE
  CanLock = FALSE
  MaxMinute = 1
  MaxRuns = 2
SPECIFICATION Spec
PROPERTIES NoDoubleFire
CHECK_DEADLOCK FALSE
