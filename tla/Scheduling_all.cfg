\* A daemon and two browser sessions over two minutes, with every fault.
CONSTANTS
  d1 = d1  r1 = r1  e1 = e1
  NoCron = NoCron
  Suites <- OneSuite
  Crons <- EveryMinute
  Schedulers <- OneScheduler
  Runners <- OneRunner
  Editors <- OneEditor
  NotifyOn = "failure"
  CanCrash = TRUE
  CanLock = TRUE
  MaxMinute = 1
  MaxRuns = 1
SPECIFICATION Spec
INVARIANTS TypeOK LastRunIsARun
PROPERTIES EditsSurviveRuns DeletedStaysDeleted
CHECK_DEADLOCK FALSE
