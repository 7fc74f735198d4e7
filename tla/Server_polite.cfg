CONSTANTS
  Conns = {c1, c2}
  c1 = c1
  c2 = c2
  Fds = {f1, f2}
  f1 = f1
  f2 = f2
  Workers = {w1, w2}
  w1 = w1
  w2 = w2
  Main = Main
  Listen = Listen
  None = None
  RespLen = 1
  SndBuf = 1
  Segs = 2
  MaxRequests = 1
  QueueCap = 4
  Indigestible = {}
  Polite = TRUE
  Timeouts = TRUE
SPECIFICATION TimedSpec
INVARIANT TypeOK
INVARIANT OneHandler
INVARIANT NoDanglingChannel
 
\* An idle server waits in epoll_wait, a dead one takes no step.
CHECK_DEADLOCK FALSE
