CONSTANTS
  Conns = {c1}
  c1 = c1
  Fds = {f1}
  f1 = f1
  Workers = {w1, w2}
  w1 = w1
  w2 = w2
  Main = Main
  Listen = Listen
  None = None
  RespLen = 2
  SndBuf = 1
  Segs = 1
  MaxRequests = 1
  QueueCap = 4
  Indigestible = {}
  Polite = TRUE
  Timeouts = FALSE
SPECIFICATION Spec
SYMMETRY Symmetry
INVARIANT RetrieveAssertHolds
\* An idle server waits in epoll_wait, a dead one takes no step.
CHECK_DEADLOCK FALSE
