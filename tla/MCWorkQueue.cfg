CONSTANTS
  i1 = i1
  i2 = i2
  t1 = t1
  t2 = t2
  NoItem = NoItem
  Items <- MCItems
  Threads <- MCThreads
  Wrap <- MCWrap
  Period <- MCPeriod
  Delays <- MCDelays
SPECIFICATION Spec
SYMMETRY ItemSymmetry
INVARIANT TypeOK
INVARIANT ArmedAreLinked
PROPERTY Refinement
