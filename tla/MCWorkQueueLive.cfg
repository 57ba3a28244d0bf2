CONSTANTS
  i1 = i1
  i2 = i2
  t1 = t1
  t2 = t2
  NoItem = NoItem
  Items <- MCOneItem
  Threads <- MCTwoThreads
  Wrap <- MCWrap
  Period <- MCPeriod
  Delays <- MCDelays
SPECIFICATION Spec
PROPERTY PendingEventuallyRuns
