\* The connections the program opens, and calls that raise.
CONSTANTS
  t1 = t1  t2 = t2  t3 = t3  c1 = c1  c2 = c2
  Threads <- ThreeThreads
  Conns <- TwoConns
  ConnOf <- Deployed
  MaxCalls = 1
  CanRaise = TRUE
  CanLock = TRUE
  CanCrash = TRUE
SPECIFICATION DbSpec
INVARIANTS ReturnedIsStored
CHECK_DEADLOCK FALSE
