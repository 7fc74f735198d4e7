CONSTANTS
  x1 = x1
  x2 = x2
  x3 = x3
  x4 = x4
  x5 = x5
  x6 = x6
  Ids = {x1, x2, x3, x4, x5, x6}
  Ms = 2
  Timeout = 3
  MaxTime = 3
  NoRef = NoRef
SPECIFICATION Spec
SYMMETRY Symmetry
INVARIANT TypeOK
INVARIANT RefConsistent
INVARIANT MinHeap
PROPERTY ImplementsTimerMap
