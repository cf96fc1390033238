\* One daemon, suites saved and deleted, nobody editing or running by hand.
CONSTANTS
  d1 = d1  r1 = r1  e1 = e1
  NoCron = NoCron
  Suites <- TwoSuites
  Crons <- MinuteChoices
  Schedulers <- OneScheduler
  Runners <- NoProcess
  Editors <- NoProcess
  NotifyOn = "failure"
  CanCrash = FALSE
  CanLock = FALSE
  MaxMinute = 2
  MaxRuns = 4
SPECIFICATION FairSpec
PROPERTIES NoDoubleFire LastRunMonotone EveryDueSuiteRuns EveryFailureIsNotified
CHECK_DEADLOCK FALSE
