CONSTANTS
  w1 = w1
  w2 = w2
  Writers = {w1, w2}
  Async = Async
  Capacity = 2
  StreamCap = 1
  MaxCalls = 3
  MaxStarts = 2
  NoTicket = NoTicket
  NoValue = NoValue
SPECIFICATION FairSpec
INVARIANT TypeOK
INVARIANT FileInOrder
INVARIANT LostOnlyIfRefusedOrKilled
PROPERTY DestructorReturns
\* A process that was stopped for good takes no step.
CHECK_DEADLOCK FALSE
