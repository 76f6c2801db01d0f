CONSTANTS
  t1 = t1
  t2 = t2
  main = main
  f1 = f1
  f2 = f2
  Threads = {t1, t2}
  Fibers = {main, f1, f2}
  Main = main
  First = t1
  None = None
  MaxSteps = 2
SPECIFICATION FairSpec
INVARIANTS NeverFatal AccountedFor SleepersListen NoSharedStack
PROPERTIES EnqueuedRuns
CHECK_DEADLOCK FALSE
